---- MODULE Spec2Model ----
(***************************************************************************)
(* The application and model registry of django/core/apps/cache.py         *)
(* (class AppCache): population of applications and models under the       *)
(* import lock, registration of models, the get_models lookup cache, the   *)
(* restriction to available apps, the scoped contexts and load_app.        *)
(*                                                                         *)
(* Every thread runs a bounded number of top-level calls.  A call is a     *)
(* stack of frames, one per active method invocation; a step executes one  *)
(* statement group of the top frame.  Exceptions propagate one frame per   *)
(* step through exc[t].                                                    *)
(***************************************************************************)
EXTENDS Naturals, Sequences, FiniteSets, TLC

\* ---------------------------------------------------------------- bounds

NumThreads == 2
MaxApps == 2
MaxCalls == 2
MaxThreadCalls == 1
MaxNest == 1
MaxLongCalls == 3
MaxQueryCalls == 3
MaxScopeCalls == 3
MaxProbeCalls == 2
MaxFilterCalls == 2
MaxToggleCalls == 4
MaxFairCalls == 1
MaxLookupCalls == 3
MaxCommandCalls == 4

\* ------------------------------------------------------------- constants

Threads == 1 .. NumThreads

Range(s) == {s[i] : i \in 1 .. Len(s)}

\* The pool the configured application list is drawn from.
AppPool == <<"x", "y", "z", "w">>

\* An application whose dotted name ends in the label of AppPool[1].
DupApp == "q.x"

\* The configured application lists: distinct labels, and one whose last
\* entry has the label of its first.
DefaultApps == SubSeq(AppPool, 1, MaxApps)

DuplicateApps == Append(SubSeq(AppPool, 1, MaxApps - 1), DupApp)

\* AppConfig.label: the last segment of the application name
\* (app_name.rpartition(".")[2]), on the names in use.
Label(name) ==
    CASE name = "q.x" -> "x"
      [] OTHER -> name

\* A label under which models are registered although no application with
\* that label is installed.
NotInstalledLabel == "n"

\* An application that is not configured: load_app and _with_app add it.
ExtraApp == "e"

\* An application without a models unit: its AppConfig keeps
\* models_module = None.
BareApp == "b"

\* A configured list whose last application has no models unit.
BareApps == Append(SubSeq(AppPool, 1, MaxApps - 1), BareApp)

HasModelsUnit(name) == name # BareApp

\* The applications an AppConfig can be created for.
Apps(installed) == Range(installed) \cup {ExtraApp}

AllLabels ==
    {Label(AppPool[i]) : i \in 1 .. Len(AppPool)}
    \cup {Label(ExtraApp), NotInstalledLabel}

\* A model class: the label it is registered under, its lowercased name,
\* the source file that defines it (stem and extension), and the three
\* attributes get_models filters on.
Model(l, n, s, e) ==
    [label |-> l, name |-> n, stem |-> s, ext |-> e,
     deferred |-> FALSE, auto_created |-> FALSE, swapped |-> FALSE]

\* The model a models unit defines when it is imported.
UnitModel(name) == Model(Label(name), "m", name, "py")

\* Models defined outside the models units (imported lazily, after or
\* during population), under an installed label and under a label that is
\* not installed.  Under the installed label the same name is defined by
\* one file seen as source and as compiled artifact, and by a second file.
LateModels ==
    {Model(Label(AppPool[1]), "late", "t", "py"),
     Model(Label(AppPool[1]), "late", "t", "pyc"),
     Model(Label(AppPool[1]), "late", "u", "py"),
     Model(NotInstalledLabel, "late", "t", "py")}

\* No model.
NoModel == Model("-", "-", "-", "-")

\* The model classes one module defines, in order: a plain one, a deferred
\* one, an auto-created one, a swapped one, and one that is all three.
FlaggedModels ==
    << Model("x", "p", "f", "py"),
       [Model("x", "d", "f", "py") EXCEPT !.deferred = TRUE],
       [Model("x", "a", "f", "py") EXCEPT !.auto_created = TRUE],
       [Model("x", "s", "f", "py") EXCEPT !.swapped = TRUE],
       [Model("x", "das", "f", "py") EXCEPT !.deferred = TRUE,
                                            !.auto_created = TRUE,
                                            !.swapped = TRUE] >>

\* The get_models parameter tuple (the cache key).
Key(am, ac, de, oi, sw) ==
    [app_mod |-> am, include_auto_created |-> ac, include_deferred |-> de,
     only_installed |-> oi, include_swapped |-> sw]

Keys == {Key("None", FALSE, FALSE, oi, FALSE) : oi \in BOOLEAN}

\* Every parameter tuple: all models or those of the module of one
\* application, and each flag either way.
AllKeys ==
    {Key(am, ac, de, oi, sw) :
        am \in {"None", "x"}, ac \in BOOLEAN, de \in BOOLEAN,
        oi \in BOOLEAN, sw \in BOOLEAN}

\* get_models(): every parameter at its default.
DefaultKey == Key("None", FALSE, FALSE, TRUE, FALSE)

NoKey == Key("None", FALSE, FALSE, FALSE, FALSE)

\* A key that has no entry in the cache: a value that no cached list
\* equals, since no model has this label.
NoEntry == <<Model("NoEntry", "-", "-", "-")>>

\* ----------------------------------------------------- management commands

\* The name get_commands gives the commands of django.core.management.
CoreApp == "django.core"

\* The file names found in management/commands directories.
FileNames == {"__init__.py", "_private.py", "run.py", "run.pyc", "sync.py",
              "notes.txt"}

\* f.startswith('_')
StartsWithUnderscore(f) == f \in {"__init__.py", "_private.py"}

\* f.endswith('.py')
EndsWithPy(f) == f \in {"__init__.py", "_private.py", "run.py", "sync.py"}

\* f[:-3]: the file name without its last three characters.
DropLast3(f) ==
    CASE f = "__init__.py" -> "__init__"
      [] f = "_private.py" -> "_private"
      [] f = "run.py" -> "run"
      [] f = "run.pyc" -> "run."
      [] f = "sync.py" -> "sync"
      [] f = "notes.txt" -> "notes"

\* A management directory: whether its commands directory exists, and the
\* files os.listdir finds there.
NoDir == [exists |-> FALSE, files |-> {}]

Dir(files) == [exists |-> TRUE, files |-> files]

Listings ==
    {NoDir,
     Dir({"__init__.py", "run.py", "run.pyc"}),
     Dir({"__init__.py", "sync.py", "_private.py"}),
     Dir({"__init__.py", "run.py", "sync.py", "notes.txt"})}

\* find_commands(management_dir): the names of the files that end in .py
\* and do not start with an underscore, without the extension; nothing
\* when os.listdir raises OSError.
FindCommands(d) ==
    IF ~d.exists THEN {}
    ELSE {DropLast3(f) :
             f \in {g \in d.files : ~StartsWithUnderscore(g) /\ EndsWithPy(g)}}

\* What lru_cache(maxsize=None) keeps for a function without arguments:
\* nothing, or the value the first completed call returned.
NotCached == [cached |-> FALSE, value |-> <<>>]

Cached(v) == [cached |-> TRUE, value |-> v]

\* ----------------------------------------------------------------- state

VARIABLES
    INSTALLED_APPS,  \* settings.INSTALLED_APPS: the configured names, in order
    master,          \* AppCache.master
    all_models,      \* label -> ordered models (a defaultdict: keys appear on access)
    app_configs,     \* ordered mapping label -> AppConfig, as the sequence of app names
    available_apps,  \* <<>> (None) or <<S>>, S the set of available app names
    _apps_loaded,
    _models_loaded,
    _postponed,      \* "absent" (no such attribute) or the list of postponed apps
    _get_models_cache, \* key -> NoEntry or the cached list
    models_module,   \* app name -> whether AppConfig.models_module is set
    sys_modules,     \* app name -> "none" | "partial" | "loaded": its models unit
    lock,            \* the import lock: owner (0: free) and re-entrancy count
    stack,           \* thread -> its frames, outermost first
    exc,             \* thread -> the exception in flight, or "none"
    calls,           \* thread -> the number of top-level calls it may still make
    retries,         \* app name -> import_models calls made for it by the retry loop
    scopes,          \* the scoped contexts the caller has open, innermost last,
                     \* each with app_configs and available_apps as at entry
    configured,      \* settings.configured
    management_dirs, \* 'django.core' or app name -> its management/commands directory
    get_commands_cache \* what lru_cache keeps for get_commands()

regVars == <<INSTALLED_APPS, master, all_models, app_configs, available_apps,
             _apps_loaded, _models_loaded, _postponed, _get_models_cache,
             models_module>>
mgmtVars == <<configured, management_dirs, get_commands_cache>>
envVars == <<sys_modules, retries, scopes, mgmtVars>>
vars == <<stack, exc, calls, lock, scopes, sys_modules, retries, mgmtVars,
          INSTALLED_APPS, master, all_models, app_configs, available_apps,
          _apps_loaded, _models_loaded, _postponed, models_module,
          _get_models_cache>>

\* --------------------------------------------------------------- helpers

Frame(fn, pc) ==
    [fn |-> fn, pc |-> pc, i |-> 0, outermost |-> FALSE, app |-> "-",
     key |-> NoKey, list |-> <<>>, nested |-> 0, available |-> {},
     model |-> NoModel, label |-> "-", name |-> "-", flag |-> FALSE,
     before |-> <<>>, before_available |-> <<>>,
     commands |-> <<>>, configs |-> <<>>]

Top(t) == stack[t][Len(stack[t])]

Running(t, fn, pc) ==
    /\ stack[t] # <<>>
    /\ Top(t).fn = fn
    /\ Top(t).pc = pc

\* The stack of t with its top frame replaced.
WithTop(t, f) == [stack[t] EXCEPT ![Len(stack[t])] = f]

\* The top frame moves to pc and stays on the stack.
Goto(t, pc) == stack' = [stack EXCEPT ![t] = WithTop(t, [Top(t) EXCEPT !.pc = pc])]

\* The top frame becomes f, and g is called from it.
CallFrom(t, f, g) == stack' = [stack EXCEPT ![t] = Append(WithTop(t, f), g)]

\* The top frame returns (or an exception leaves it).
Return(t) == stack' = [stack EXCEPT ![t] = SubSeq(stack[t], 1, Len(stack[t]) - 1)]

\* import_lock(): the interpreter's import lock is re-entrant.
Acquirable(t) == lock.owner \in {0, t}

Acquire(t) == lock' = [owner |-> t, count |-> lock.count + 1]

Release(t) ==
    lock' = IF lock.count = 1 THEN [owner |-> 0, count |-> 0]
            ELSE [owner |-> lock.owner, count |-> lock.count - 1]

\* del self.app_configs[label] / self.app_configs.pop(label, None)
Remove(cfgs, a) == SelectSeq(cfgs, LAMBDA c : Label(c) # Label(a))

\* self.app_configs[label] = app_config: an entry with that label is
\* replaced where it is, a new one goes to the end.
Put(cfgs, a) ==
    IF \E i \in 1 .. Len(cfgs) : Label(cfgs[i]) = Label(a)
    THEN [i \in 1 .. Len(cfgs) |->
             IF Label(cfgs[i]) = Label(a) THEN a ELSE cfgs[i]]
    ELSE Append(cfgs, a)

\* ------------------------------------------------------------------ Init

Registry0 ==
    /\ master \in BOOLEAN
    /\ all_models = << >>
    /\ app_configs = <<>>
    /\ available_apps = <<>>
    /\ _apps_loaded = ~master
    /\ _models_loaded = ~master
    /\ _postponed = "absent"
    /\ _get_models_cache = [k \in AllKeys |-> NoEntry]
    /\ models_module = [a \in Apps(INSTALLED_APPS) |-> FALSE]
    /\ sys_modules = [a \in Apps(INSTALLED_APPS) |-> "none"]
    /\ lock = [owner |-> 0, count |-> 0]
    /\ stack = [t \in Threads |-> <<>>]
    /\ exc = [t \in Threads |-> "none"]
    /\ retries = [a \in Apps(INSTALLED_APPS) |-> 0]
    /\ scopes = <<>>

\* The management commands play no part: settings are configured, no
\* directory holds a command, get_commands has not been called.
Management0 ==
    /\ configured = TRUE
    /\ management_dirs = [o \in {CoreApp} \cup Apps(INSTALLED_APPS) |-> NoDir]
    /\ get_commands_cache = NotCached

\* One thread makes a sequence of calls.
Init ==
    /\ INSTALLED_APPS = DefaultApps
    /\ Registry0
    /\ Management0
    /\ calls = [t \in Threads |-> IF t = 1 THEN MaxCalls ELSE 0]

\* Every thread makes calls, concurrently.
InitThreads ==
    /\ INSTALLED_APPS = DefaultApps
    /\ Registry0
    /\ Management0
    /\ calls = [t \in Threads |-> MaxThreadCalls]

\* One thread makes a longer sequence of calls.
InitLong ==
    /\ INSTALLED_APPS = DefaultApps
    /\ Registry0
    /\ Management0
    /\ calls = [t \in Threads |-> IF t = 1 THEN MaxLongCalls ELSE 0]

\* One thread makes a sequence of calls, under either configured list.
InitSettings ==
    /\ INSTALLED_APPS \in {DefaultApps, DuplicateApps}
    /\ Registry0
    /\ Management0
    /\ calls = [t \in Threads |-> IF t = 1 THEN MaxCalls ELSE 0]

\* One thread makes a sequence of calls inside and outside scoped contexts.
InitContexts ==
    /\ INSTALLED_APPS = DefaultApps
    /\ Registry0
    /\ Management0
    /\ calls = [t \in Threads |-> IF t = 1 THEN MaxScopeCalls ELSE 0]

\* Every thread makes calls, concurrently.
InitProbes ==
    /\ INSTALLED_APPS = DefaultApps
    /\ Registry0
    /\ Management0
    /\ calls = [t \in Threads |-> MaxProbeCalls]

\* One thread makes a sequence of calls.
InitFilter ==
    /\ INSTALLED_APPS = DefaultApps
    /\ Registry0
    /\ Management0
    /\ calls = [t \in Threads |-> IF t = 1 THEN MaxFilterCalls ELSE 0]

\* One thread makes a sequence of calls.
InitToggle ==
    /\ INSTALLED_APPS = DefaultApps
    /\ Registry0
    /\ Management0
    /\ calls = [t \in Threads |-> IF t = 1 THEN MaxToggleCalls ELSE 0]

\* Every thread makes a sequence of populate calls, concurrently.
InitFair ==
    /\ INSTALLED_APPS = DefaultApps
    /\ Registry0
    /\ Management0
    /\ calls = [t \in Threads |-> MaxFairCalls]

\* One thread makes a sequence of lookups and registrations.
InitLookup ==
    /\ INSTALLED_APPS = DefaultApps
    /\ Registry0
    /\ Management0
    /\ calls = [t \in Threads |-> IF t = 1 THEN MaxLookupCalls ELSE 0]

\* The configured applications in the opposite order.
ReversedApps == [i \in 1 .. MaxApps |-> DefaultApps[MaxApps + 1 - i]]

\* One thread makes a sequence of calls, among them get_commands; settings
\* are configured or not yet, and every management directory is any of
\* the listings (the application that is not configured has none).
InitCommands ==
    /\ INSTALLED_APPS \in {DefaultApps, ReversedApps}
    /\ Registry0
    /\ calls = [t \in Threads |-> IF t = 1 THEN MaxCommandCalls ELSE 0]
    /\ configured \in BOOLEAN
    /\ management_dirs \in
          {d \in [{CoreApp} \cup Apps(INSTALLED_APPS) -> Listings] :
              d[ExtraApp] = NoDir}
    /\ get_commands_cache = NotCached

\* One thread makes a sequence of calls; the last configured application
\* has no models unit.
InitQueries ==
    /\ INSTALLED_APPS = BareApps
    /\ Registry0
    /\ Management0
    /\ calls = [t \in Threads |-> IF t = 1 THEN MaxQueryCalls ELSE 0]

\* ---------------------------------------------------------- populate_apps

\* if self._apps_loaded: return
PA_Check(t) ==
    /\ Running(t, "populate_apps", "check")
    /\ IF _apps_loaded THEN Return(t) ELSE Goto(t, "lock")
    /\ UNCHANGED <<regVars, envVars, lock, exc, calls>>

\* with import_lock():
PA_Lock(t) ==
    /\ Running(t, "populate_apps", "lock")
    /\ Acquirable(t)
    /\ Acquire(t)
    /\ Goto(t, "check2")
    /\ UNCHANGED <<regVars, envVars, exc, calls>>

\* Inside the lock: the second check of the flag, then the pristine check.
PA_Check2(t) ==
    /\ Running(t, "populate_apps", "check2")
    /\ IF _apps_loaded
       THEN Return(t) /\ Release(t) /\ UNCHANGED exc
       ELSE IF app_configs # <<>>
       THEN /\ exc' = [exc EXCEPT ![t] = "RuntimeError"]
            /\ Return(t)
            /\ Release(t)
       ELSE /\ stack' = [stack EXCEPT ![t] =
                           WithTop(t, [Top(t) EXCEPT !.pc = "loop", !.i = 1])]
            /\ UNCHANGED <<lock, exc>>
    /\ UNCHANGED <<regVars, envVars, calls>>

\* One iteration of the loop over settings.INSTALLED_APPS: AppConfig.create
\* imports the application module, which may fail.
PA_CreatePrepend(t) ==
    /\ Running(t, "populate_apps", "loop")
    /\ Top(t).i <= Len(INSTALLED_APPS)
    /\ \/ /\ app_configs' = <<INSTALLED_APPS[Top(t).i]>> \o app_configs
          /\ stack' = [stack EXCEPT ![t] =
                          WithTop(t, [Top(t) EXCEPT !.i = @ + 1])]
          /\ UNCHANGED <<lock, exc>>
       \/ /\ exc' = [exc EXCEPT ![t] = "ImportError"]
          /\ Return(t)
          /\ Release(t)
          /\ UNCHANGED app_configs
    /\ UNCHANGED <<INSTALLED_APPS, master, all_models, available_apps, _apps_loaded,
                   _models_loaded, _postponed, _get_models_cache,
                   models_module, envVars, calls>>

PA_Create(t) ==
    /\ Running(t, "populate_apps", "loop")
    /\ Top(t).i <= Len(INSTALLED_APPS)
    /\ \/ /\ app_configs' = Put(app_configs, INSTALLED_APPS[Top(t).i])
          /\ stack' = [stack EXCEPT ![t] =
                          WithTop(t, [Top(t) EXCEPT !.i = @ + 1])]
          /\ UNCHANGED <<lock, exc>>
       \/ /\ exc' = [exc EXCEPT ![t] = "ImportError"]
          /\ Return(t)
          /\ Release(t)
          /\ UNCHANGED app_configs
    /\ UNCHANGED <<INSTALLED_APPS, master, all_models, available_apps, _apps_loaded,
                   _models_loaded, _postponed, _get_models_cache,
                   models_module, envVars, calls>>

\* populate_apps that leaves with the import lock held.
PA_DoneHolding(t) ==
    /\ Running(t, "populate_apps", "loop")
    /\ Top(t).i > Len(INSTALLED_APPS)
    /\ _apps_loaded' = TRUE
    /\ Return(t)
    /\ UNCHANGED <<INSTALLED_APPS, master, all_models, app_configs, available_apps,
                   _models_loaded, _postponed, _get_models_cache,
                   models_module, envVars, lock, exc, calls>>

\* self._apps_loaded = True, and the lock is released.
PA_Done(t) ==
    /\ Running(t, "populate_apps", "loop")
    /\ Top(t).i > Len(INSTALLED_APPS)
    /\ _apps_loaded' = TRUE
    /\ Return(t)
    /\ Release(t)
    /\ UNCHANGED <<INSTALLED_APPS, master, all_models, app_configs, available_apps,
                   _models_loaded, _postponed, _get_models_cache,
                   models_module, envVars, exc, calls>>

\* AppConfig.create imports the application module, whose code calls back
\* into the registry: populate_apps, made from the same call chain while
\* the loop is at this application.  The outermost frame of the call counts
\* these calls, at most MaxNest of them.
PA_Nested(t) ==
    /\ Running(t, "populate_apps", "loop")
    /\ Top(t).i <= Len(INSTALLED_APPS)
    /\ stack[t][1].nested < MaxNest
    /\ stack' = [stack EXCEPT ![t] =
                    Append([WithTop(t, [Top(t) EXCEPT !.pc = "creating"])
                               EXCEPT ![1].nested = @ + 1],
                           Frame("populate_apps", "check"))]
    /\ UNCHANGED <<regVars, envVars, lock, exc, calls>>

\* The call made by the application module has returned or raised; an
\* exception leaves AppConfig.create and populate_apps.
PA_Resume(t) ==
    /\ Running(t, "populate_apps", "creating")
    /\ IF exc[t] = "none"
       THEN /\ Goto(t, "loop")
            /\ UNCHANGED lock
       ELSE /\ Return(t)
            /\ Release(t)
    /\ UNCHANGED <<regVars, envVars, exc, calls>>

\* -------------------------------------------------------- register_model

\* The position of the model named n in the ordered mapping, 0 when absent.
IndexOf(models, n) ==
    IF \E i \in 1 .. Len(models) : models[i].name = n
    THEN CHOOSE i \in 1 .. Len(models) : models[i].name = n
    ELSE 0

\* defaultdict access: all_models[label] creates the entry when it is missing.
Touch(am, l) == IF l \in DOMAIN am THEN am ELSE am @@ (l :> <<>>)

\* os.path.splitext(fname)[0]: the file name without its extension.
SplitExt(m) == m.stem

EmptyCache == [k \in AllKeys |-> NoEntry]

\* register_model(app_label, model): a name already registered from the
\* same source file (whatever the extension) is left alone; otherwise the
\* model is stored under its name and the whole cache is cleared.
RegisterModelNoClear(l, m) ==
    LET am == Touch(all_models, l)
        idx == IndexOf(am[l], m.name)
    IN  IF idx # 0 /\ SplitExt(m) = SplitExt(am[l][idx])
        THEN /\ all_models' = am
             /\ UNCHANGED _get_models_cache
        ELSE /\ all_models' = [am EXCEPT ![l] =
                                  IF idx # 0 THEN [@ EXCEPT ![idx] = m]
                                  ELSE Append(@, m)]
             /\ UNCHANGED _get_models_cache

RegisterModelAlways(l, m) ==
    LET am == Touch(all_models, l)
        idx == IndexOf(am[l], m.name)
    IN  /\ all_models' = [am EXCEPT ![l] =
                             IF idx # 0 THEN [@ EXCEPT ![idx] = m]
                             ELSE Append(@, m)]
        /\ _get_models_cache' = EmptyCache

RegisterModel(l, m) ==
    LET am == Touch(all_models, l)
        idx == IndexOf(am[l], m.name)
    IN  IF idx # 0 /\ SplitExt(m) = SplitExt(am[l][idx])
        THEN /\ all_models' = am
             /\ UNCHANGED _get_models_cache
        ELSE /\ all_models' = [am EXCEPT ![l] =
                                  IF idx # 0 THEN [@ EXCEPT ![idx] = m]
                                  ELSE Append(@, m)]
             /\ _get_models_cache' = EmptyCache

\* -------------------------------------------------------- populate_models

\* if self._models_loaded: return
PM_Check(t) ==
    /\ Running(t, "populate_models", "check")
    /\ IF _models_loaded THEN Return(t) ELSE Goto(t, "lock")
    /\ UNCHANGED <<regVars, envVars, lock, exc, calls>>

\* with import_lock():
PM_LockNoWait(t) ==
    /\ Running(t, "populate_models", "lock")
    /\ Acquire(t)
    /\ Goto(t, "check2")
    /\ UNCHANGED <<regVars, envVars, exc, calls>>

PM_Lock(t) ==
    /\ Running(t, "populate_models", "lock")
    /\ Acquirable(t)
    /\ Acquire(t)
    /\ Goto(t, "check2")
    /\ UNCHANGED <<regVars, envVars, exc, calls>>

\* Inside the lock: the second check of the flag, then self.populate_apps().
PM_Check2NoRecheck(t) ==
    /\ Running(t, "populate_models", "check2")
    /\ CallFrom(t, [Top(t) EXCEPT !.pc = "after_pa"],
                Frame("populate_apps", "check"))
    /\ UNCHANGED lock
    /\ UNCHANGED <<regVars, envVars, exc, calls>>

PM_Check2NoApps(t) ==
    /\ Running(t, "populate_models", "check2")
    /\ IF _models_loaded
       THEN Return(t) /\ Release(t)
       ELSE /\ Goto(t, "after_pa")
            /\ UNCHANGED lock
    /\ UNCHANGED <<regVars, envVars, exc, calls>>

PM_Check2(t) ==
    /\ Running(t, "populate_models", "check2")
    /\ IF _models_loaded
       THEN Return(t) /\ Release(t)
       ELSE /\ CallFrom(t, [Top(t) EXCEPT !.pc = "after_pa"],
                        Frame("populate_apps", "check"))
            /\ UNCHANGED lock
    /\ UNCHANGED <<regVars, envVars, exc, calls>>

\* outermost = not hasattr(self, '_postponed')
OutermostAlways == TRUE
Outermost == _postponed = "absent"

\* populate_apps has returned or raised; the outermost invocation creates
\* the list of postponed AppConfigs.
PM_Begin(t) ==
    /\ Running(t, "populate_models", "after_pa")
    /\ IF exc[t] # "none"
       THEN /\ Return(t)
            /\ Release(t)
            /\ UNCHANGED <<_postponed, retries>>
       ELSE /\ stack' = [stack EXCEPT ![t] =
                           WithTop(t, [Top(t) EXCEPT !.pc = "loop", !.i = 1,
                                                     !.outermost = Outermost])]
            /\ _postponed' = IF Outermost THEN <<>> ELSE _postponed
            /\ retries' = IF Outermost THEN [a \in DOMAIN retries |-> 0]
                          ELSE retries
            /\ UNCHANGED lock
    /\ UNCHANGED <<INSTALLED_APPS, master, all_models, app_configs, available_apps,
                   _apps_loaded, _models_loaded, _get_models_cache,
                   models_module, sys_modules, scopes, mgmtVars, exc, calls>>

\* One iteration of the first pass: all_models[label] is looked up and
\* app_config.import_models(all_models) is called.
PM_Loop(t) ==
    /\ Running(t, "populate_models", "loop")
    /\ Top(t).i <= Len(app_configs)
    /\ all_models' = Touch(all_models, Label(app_configs[Top(t).i]))
    /\ CallFrom(t, [Top(t) EXCEPT !.pc = "loop_wait"],
                [Frame("import_models", "start") EXCEPT
                    !.app = app_configs[Top(t).i]])
    /\ UNCHANGED <<INSTALLED_APPS, master, app_configs, available_apps, _apps_loaded,
                   _models_loaded, _postponed, _get_models_cache,
                   models_module, envVars, lock, exc, calls>>

\* except ImportError: self._postponed.append(app_config); any other
\* exception leaves populate_models.
PM_AfterImportDrop(t) ==
    /\ Running(t, "populate_models", "loop_wait")
    /\ IF exc[t] \in {"none", "ImportError"}
       THEN /\ exc' = [exc EXCEPT ![t] = "none"]
            /\ stack' = [stack EXCEPT ![t] =
                           WithTop(t, [Top(t) EXCEPT !.pc = "loop", !.i = @ + 1])]
            /\ UNCHANGED <<_postponed, lock>>
       ELSE /\ Return(t)
            /\ Release(t)
            /\ UNCHANGED <<_postponed, exc>>
    /\ UNCHANGED <<INSTALLED_APPS, master, all_models, app_configs, available_apps,
                   _apps_loaded, _models_loaded, _get_models_cache,
                   models_module, envVars, calls>>

PM_AfterImportAbort(t) ==
    /\ Running(t, "populate_models", "loop_wait")
    /\ IF exc[t] = "none"
       THEN /\ stack' = [stack EXCEPT ![t] =
                           WithTop(t, [Top(t) EXCEPT !.pc = "loop", !.i = @ + 1])]
            /\ UNCHANGED lock
       ELSE /\ Return(t)
            /\ Release(t)
    /\ UNCHANGED <<regVars, envVars, exc, calls>>

PM_AfterImport(t) ==
    /\ Running(t, "populate_models", "loop_wait")
    /\ IF exc[t] = "none"
       THEN /\ stack' = [stack EXCEPT ![t] =
                           WithTop(t, [Top(t) EXCEPT !.pc = "loop", !.i = @ + 1])]
            /\ UNCHANGED <<_postponed, exc, lock>>
       ELSE IF exc[t] = "ImportError"
       THEN /\ _postponed' = Append(_postponed, app_configs[Top(t).i])
            /\ exc' = [exc EXCEPT ![t] = "none"]
            /\ stack' = [stack EXCEPT ![t] =
                           WithTop(t, [Top(t) EXCEPT !.pc = "loop", !.i = @ + 1])]
            /\ UNCHANGED lock
       ELSE /\ Return(t)
            /\ Release(t)
            /\ UNCHANGED <<_postponed, exc>>
    /\ UNCHANGED <<INSTALLED_APPS, master, all_models, app_configs, available_apps,
                   _apps_loaded, _models_loaded, _get_models_cache,
                   models_module, envVars, calls>>

\* The first pass is over: a nested invocation returns, the outermost one
\* goes on to the retry loop.
PM_EndPass(t) ==
    /\ Running(t, "populate_models", "loop")
    /\ Top(t).i > Len(app_configs)
    /\ IF Top(t).outermost
       THEN /\ stack' = [stack EXCEPT ![t] =
                           WithTop(t, [Top(t) EXCEPT !.pc = "retry", !.i = 1])]
            /\ UNCHANGED lock
       ELSE /\ Return(t)
            /\ Release(t)
    /\ UNCHANGED <<regVars, envVars, exc, calls>>

\* One iteration of the retry loop over self._postponed.
PM_Retry(t) ==
    /\ Running(t, "populate_models", "retry")
    /\ Top(t).i <= Len(_postponed)
    /\ all_models' = Touch(all_models, Label(_postponed[Top(t).i]))
    /\ retries' = [retries EXCEPT ![_postponed[Top(t).i]] = @ + 1]
    /\ CallFrom(t, [Top(t) EXCEPT !.pc = "retry_wait"],
                [Frame("import_models", "start") EXCEPT
                    !.app = _postponed[Top(t).i]])
    /\ UNCHANGED <<INSTALLED_APPS, master, app_configs, available_apps, _apps_loaded,
                   _models_loaded, _postponed, _get_models_cache,
                   models_module, sys_modules, scopes, mgmtVars, lock, exc, calls>>

\* The retried import has returned; a failure is not caught here.
PM_AfterRetryCatching(t) ==
    /\ Running(t, "populate_models", "retry_wait")
    /\ IF exc[t] = "none"
       THEN /\ stack' = [stack EXCEPT ![t] =
                           WithTop(t, [Top(t) EXCEPT !.pc = "retry", !.i = @ + 1])]
            /\ UNCHANGED <<_postponed, exc, lock>>
       ELSE /\ _postponed' = Append(_postponed, _postponed[Top(t).i])
            /\ exc' = [exc EXCEPT ![t] = "none"]
            /\ stack' = [stack EXCEPT ![t] =
                           WithTop(t, [Top(t) EXCEPT !.pc = "done"])]
            /\ UNCHANGED lock
    /\ UNCHANGED <<INSTALLED_APPS, master, all_models, app_configs, available_apps,
                   _apps_loaded, _models_loaded, _get_models_cache,
                   models_module, envVars, calls>>

PM_AfterRetry(t) ==
    /\ Running(t, "populate_models", "retry_wait")
    /\ IF exc[t] = "none"
       THEN /\ stack' = [stack EXCEPT ![t] =
                           WithTop(t, [Top(t) EXCEPT !.pc = "retry", !.i = @ + 1])]
            /\ UNCHANGED lock
       ELSE /\ Return(t)
            /\ Release(t)
    /\ UNCHANGED <<regVars, envVars, exc, calls>>

\* del self._postponed; self._models_loaded = True
PM_Done(t) ==
    /\ Running(t, "populate_models", "retry")
    /\ Top(t).i > Len(_postponed)
    /\ _postponed' = "absent"
    /\ _models_loaded' = TRUE
    /\ Return(t)
    /\ Release(t)
    /\ UNCHANGED <<INSTALLED_APPS, master, all_models, app_configs, available_apps,
                   _apps_loaded, _get_models_cache, models_module, envVars,
                   exc, calls>>

\* ---------------------------------------------- AppConfig.import_models

\* import_models(all_models): the models unit is imported, if the
\* application has one.  A unit that is loaded, or whose import is in
\* progress further down the stack, is returned as it is; otherwise its
\* body is executed.
IM_Start(t) ==
    /\ Running(t, "import_models", "start")
    /\ IF ~HasModelsUnit(Top(t).app)
       THEN /\ Return(t)
            /\ UNCHANGED <<models_module, sys_modules>>
       ELSE IF sys_modules[Top(t).app] = "none"
       THEN /\ sys_modules' = [sys_modules EXCEPT ![Top(t).app] = "partial"]
            /\ Goto(t, "body")
            /\ UNCHANGED models_module
       ELSE /\ models_module' = [models_module EXCEPT ![Top(t).app] = TRUE]
            /\ Return(t)
            /\ UNCHANGED sys_modules
    /\ UNCHANGED <<INSTALLED_APPS, master, all_models, app_configs, available_apps,
                   _apps_loaded, _models_loaded, _postponed,
                   _get_models_cache, retries, mgmtVars, scopes, lock, exc, calls>>

\* The body of the unit defines its model class, which registers itself.
IM_Register(t) ==
    /\ Running(t, "import_models", "body")
    /\ exc[t] = "none"
    /\ RegisterModel(Label(Top(t).app), UnitModel(Top(t).app))
    /\ Goto(t, "defined")
    /\ UNCHANGED <<INSTALLED_APPS, master, app_configs, available_apps, _apps_loaded,
                   _models_loaded, _postponed, models_module, envVars, lock,
                   exc, calls>>

\* The body of the unit calls back into the registry: get_models(), which
\* calls populate_models on a cache miss.  The outermost frame of the call
\* counts these calls, at most MaxNest of them.
IM_Nested(t) ==
    /\ stack[t] # <<>>
    /\ Top(t).fn = "import_models"
    /\ Top(t).pc \in {"body", "defined"}
    /\ exc[t] = "none"
    /\ stack[t][1].nested < MaxNest
    /\ stack' = [stack EXCEPT ![t] =
                    Append([@ EXCEPT ![1].nested = @ + 1],
                           [Frame("get_models", "start") EXCEPT !.key = DefaultKey])]
    /\ UNCHANGED <<regVars, envVars, lock, exc, calls>>

\* The body of the unit has run to its end.
IM_Finish(t) ==
    /\ Running(t, "import_models", "defined")
    /\ exc[t] = "none"
    /\ sys_modules' = [sys_modules EXCEPT ![Top(t).app] = "loaded"]
    /\ models_module' = [models_module EXCEPT ![Top(t).app] = TRUE]
    /\ Return(t)
    /\ UNCHANGED <<INSTALLED_APPS, master, all_models, app_configs, available_apps,
                   _apps_loaded, _models_loaded, _postponed,
                   _get_models_cache, retries, mgmtVars, scopes, lock, exc, calls>>

\* The body of the unit raises (an import of its own fails, or a call it
\* made raised): the unit is dropped and the exception leaves import_models.
IM_Fail(t) ==
    /\ stack[t] # <<>>
    /\ Top(t).fn = "import_models"
    /\ Top(t).pc \in {"body", "defined"}
    /\ sys_modules' = [sys_modules EXCEPT ![Top(t).app] = "none"]
    /\ IF exc[t] = "none"
       THEN \E e \in {"ImportError", "OtherError"} :
               exc' = [exc EXCEPT ![t] = e]
       ELSE UNCHANGED exc
    /\ Return(t)
    /\ UNCHANGED <<regVars, retries, mgmtVars, scopes, lock, calls>>

\* ------------------------------------------------------------- get_models

RECURSIVE Flatten(_)
Flatten(dicts) ==
    IF dicts = <<>> THEN <<>> ELSE Head(dicts) \o Flatten(Tail(dicts))

\* The order in which all_models.values() yields the per-label mappings.
LabelOrder ==
    [i \in 1 .. Len(AppPool) |-> Label(AppPool[i])]
    \o <<Label(BareApp), Label(ExtraApp), NotInstalledLabel>>

RECURSIVE Values(_, _)
Values(am, i) ==
    IF i > Len(LabelOrder) THEN <<>>
    ELSE (IF LabelOrder[i] \in DOMAIN am THEN <<am[LabelOrder[i]]>> ELSE <<>>)
         \o Values(am, i + 1)

\* app_config.models: import_models binds it to all_models[label].
ConfigModels(name) ==
    IF Label(name) \in DOMAIN all_models THEN all_models[Label(name)] ELSE <<>>

HasLabel(l) == \E i \in 1 .. Len(app_configs) : Label(app_configs[i]) = l

ConfigOf(l) ==
    app_configs[CHOOSE i \in 1 .. Len(app_configs) : Label(app_configs[i]) = l]

\* Exclusion tests that are not independent: any include flag admits every
\* flagged model.
KeepAnyFlag(k, m) ==
    \/ ~m.deferred /\ ~m.auto_created /\ ~m.swapped
    \/ k.include_deferred \/ k.include_auto_created \/ k.include_swapped

\* The three exclusion tests of get_models.
Keep(k, m) ==
    /\ ~m.deferred \/ k.include_deferred
    /\ ~m.auto_created \/ k.include_auto_created
    /\ ~m.swapped \/ k.include_swapped

\* The mappings get_models reads for a key.
ModelDicts(k) ==
    IF k.app_mod # "None"
    THEN IF k.only_installed
         THEN IF HasLabel(k.app_mod) THEN <<ConfigModels(ConfigOf(k.app_mod))>>
              ELSE <<>>
         ELSE <<Touch(all_models, k.app_mod)[k.app_mod]>>
    ELSE IF k.only_installed
         THEN [i \in 1 .. Len(app_configs) |-> ConfigModels(app_configs[i])]
         ELSE Values(all_models, 1)

\* The list get_models builds for a key from the registry as it is.
ModelList(k) == SelectSeq(Flatten(ModelDicts(k)), LAMBDA m : Keep(k, m))

\* The list handed out as it is.
AvailableAll(k, list) == list

\* The restriction to available_apps applied to a list on its way out.
Available(k, list) ==
    IF available_apps # <<>> /\ k.only_installed
    THEN SelectSeq(list, LAMBDA m : ConfigOf(m.label) \in available_apps[1])
    ELSE list

\* The restriction raises KeyError: self.app_configs[m._meta.app_label] for
\* a listed model whose label has no AppConfig.
AvailableRaises(k, list) ==
    /\ available_apps # <<>>
    /\ k.only_installed
    /\ \E i \in 1 .. Len(list) : ~HasLabel(list[i].label)

\* The cache key with only_installed as it is given.
CacheKeyGiven(k) == k

\* The cache key: a cache that is not the master ignores only_installed.
CacheKey(k) == IF master THEN k ELSE [k EXCEPT !.only_installed = FALSE]

\* The entry of the key is usable when it exists and its restriction to
\* available_apps raises no KeyError: the try block catches both.
Hit(k) ==
    /\ _get_models_cache[k] # NoEntry
    /\ ~AvailableRaises(k, _get_models_cache[k])

\* The cache is tried; on a miss populate_models is called.
GM_Start(t) ==
    /\ Running(t, "get_models", "start")
    /\ LET k == CacheKey(Top(t).key)
       IN  IF Hit(k)
           THEN Return(t)
           ELSE CallFrom(t, [Top(t) EXCEPT !.pc = "after_pm", !.key = k],
                         Frame("populate_models", "check"))
    /\ UNCHANGED <<regVars, envVars, lock, exc, calls>>

\* populate_models has returned or raised; the list is built.
GM_Compute(t) ==
    /\ Running(t, "get_models", "after_pm")
    /\ IF exc[t] # "none"
       THEN /\ Return(t)
            /\ UNCHANGED all_models
       ELSE /\ stack' = [stack EXCEPT ![t] =
                           WithTop(t, [Top(t) EXCEPT !.pc = "store",
                                           !.list = ModelList(Top(t).key)])]
            /\ all_models' =
                  IF Top(t).key.app_mod # "None" /\ ~Top(t).key.only_installed
                  THEN Touch(all_models, Top(t).key.app_mod)
                  ELSE all_models
    /\ UNCHANGED <<INSTALLED_APPS, master, app_configs, available_apps, _apps_loaded,
                   _models_loaded, _postponed, _get_models_cache,
                   models_module, envVars, lock, exc, calls>>

\* get_models that caches the list after the restriction to available_apps.
GM_StoreFiltered(t) ==
    /\ Running(t, "get_models", "store")
    /\ _get_models_cache' =
          [_get_models_cache EXCEPT ![Top(t).key] =
              IF AvailableRaises(Top(t).key, Top(t).list) THEN Top(t).list
              ELSE Available(Top(t).key, Top(t).list)]
    /\ exc' = IF AvailableRaises(Top(t).key, Top(t).list)
              THEN [exc EXCEPT ![t] = "KeyError"]
              ELSE exc
    /\ Return(t)
    /\ UNCHANGED <<INSTALLED_APPS, master, all_models, app_configs, available_apps,
                   _apps_loaded, _models_loaded, _postponed, models_module,
                   envVars, lock, calls>>

\* self._get_models_cache[cache_key] = model_list, then the restriction
\* to available_apps on the way out.
GM_Store(t) ==
    /\ Running(t, "get_models", "store")
    /\ _get_models_cache' = [_get_models_cache EXCEPT ![Top(t).key] = Top(t).list]
    /\ exc' = IF AvailableRaises(Top(t).key, Top(t).list)
              THEN [exc EXCEPT ![t] = "KeyError"]
              ELSE exc
    /\ Return(t)
    /\ UNCHANGED <<INSTALLED_APPS, master, all_models, app_configs, available_apps,
                   _apps_loaded, _models_loaded, _postponed, models_module,
                   envVars, lock, calls>>

\* ------------------------------------- a module that defines a model class

\* A module defining a model is imported outside the models units: the
\* import holds the import lock while the class registers itself.
LI_Lock(t) ==
    /\ Running(t, "import_late", "lock")
    /\ Acquirable(t)
    /\ Acquire(t)
    /\ Goto(t, "register")
    /\ UNCHANGED <<regVars, envVars, exc, calls>>

LI_Register(t) ==
    /\ Running(t, "import_late", "register")
    /\ RegisterModel(Top(t).model.label, Top(t).model)
    /\ Return(t)
    /\ Release(t)
    /\ UNCHANGED <<INSTALLED_APPS, master, app_configs, available_apps, _apps_loaded,
                   _models_loaded, _postponed, models_module, envVars, exc,
                   calls>>

\* A module defining several model classes is imported: the import holds
\* the import lock while the classes register themselves, one by one.
FM_Lock(t) ==
    /\ Running(t, "import_flagged", "lock")
    /\ Acquirable(t)
    /\ Acquire(t)
    /\ stack' = [stack EXCEPT ![t] =
                    WithTop(t, [Top(t) EXCEPT !.pc = "register", !.i = 1])]
    /\ UNCHANGED <<regVars, envVars, exc, calls>>

FM_Register(t) ==
    /\ Running(t, "import_flagged", "register")
    /\ Top(t).i <= Len(FlaggedModels)
    /\ RegisterModel(FlaggedModels[Top(t).i].label, FlaggedModels[Top(t).i])
    /\ stack' = [stack EXCEPT ![t] = WithTop(t, [Top(t) EXCEPT !.i = @ + 1])]
    /\ UNCHANGED <<INSTALLED_APPS, master, app_configs, available_apps, _apps_loaded,
                   _models_loaded, _postponed, models_module, envVars, lock,
                   exc, calls>>

FM_Done(t) ==
    /\ Running(t, "import_flagged", "register")
    /\ Top(t).i > Len(FlaggedModels)
    /\ Return(t)
    /\ Release(t)
    /\ UNCHANGED <<regVars, envVars, exc, calls>>

\* The calls that register flagged models and list models.
FilterCalls ==
    {Frame("import_flagged", "lock")}
    \cup {[Frame("get_models", "start") EXCEPT !.key = k] : k \in AllKeys}

FilterCall(t) ==
    /\ stack[t] = <<>>
    /\ calls[t] > 0
    /\ calls' = [calls EXCEPT ![t] = @ - 1]
    /\ exc' = [exc EXCEPT ![t] = "none"]
    /\ \E f \in FilterCalls : stack' = [stack EXCEPT ![t] = <<f>>]
    /\ UNCHANGED <<regVars, envVars, lock>>

NextFilter ==
    \E t \in Threads :
        \/ FilterCall(t)
        \/ FM_Lock(t) \/ FM_Register(t) \/ FM_Done(t)
        \/ GM_Start(t) \/ GM_Compute(t) \/ GM_Store(t)
        \/ PA_Check(t) \/ PA_Lock(t) \/ PA_Check2(t) \/ PA_Create(t) \/ PA_Done(t)
        \/ PM_Check(t) \/ PM_Lock(t) \/ PM_Check2(t) \/ PM_Begin(t)
        \/ PM_Loop(t) \/ PM_AfterImport(t) \/ PM_EndPass(t)
        \/ PM_Retry(t) \/ PM_AfterRetry(t) \/ PM_Done(t)
        \/ IM_Start(t) \/ IM_Register(t) \/ IM_Finish(t) \/ IM_Fail(t)

\* One thread registers flagged models and calls get_models with every
\* parameter tuple.
SpecFilter == InitFilter /\ [][NextFilter]_vars

\* ------------------------------------------------------------- top level

TopLevelCalls ==
    {Frame("populate_apps", "check"), Frame("populate_models", "check")}
    \cup {[Frame("get_models", "start") EXCEPT !.key = k] : k \in Keys}
    \cup {[Frame("import_late", "lock") EXCEPT !.app = m.label, !.model = m] :
             m \in LateModels}

\* A thread with no call in progress makes its next call.
Call(t) ==
    /\ stack[t] = <<>>
    /\ calls[t] > 0
    /\ calls' = [calls EXCEPT ![t] = @ - 1]
    /\ exc' = [exc EXCEPT ![t] = "none"]
    /\ \E f \in TopLevelCalls : stack' = [stack EXCEPT ![t] = <<f>>]
    /\ UNCHANGED <<regVars, envVars, lock>>

Next ==
    \E t \in Threads :
        \/ Call(t)
        \/ PA_Check(t) \/ PA_Lock(t) \/ PA_Check2(t) \/ PA_Create(t) \/ PA_Done(t)
        \/ PM_Check(t) \/ PM_Lock(t) \/ PM_Check2(t) \/ PM_Begin(t)
        \/ PM_Loop(t) \/ PM_AfterImport(t) \/ PM_EndPass(t)
        \/ PM_Retry(t) \/ PM_AfterRetry(t) \/ PM_Done(t)
        \/ IM_Start(t) \/ IM_Register(t) \/ IM_Nested(t) \/ IM_Finish(t) \/ IM_Fail(t)
        \/ GM_Start(t) \/ GM_Compute(t) \/ GM_Store(t)
        \/ LI_Lock(t) \/ LI_Register(t)

Spec == Init /\ [][Next]_vars

SpecThreads == InitThreads /\ [][Next]_vars

\* One thread makes a sequence of calls, and the application modules may
\* call populate_apps while they are imported.
NextReentrant ==
    \/ Next
    \/ \E t \in Threads : PA_Nested(t) \/ PA_Resume(t)

SpecReentrant == Init /\ [][NextReentrant]_vars

SpecSettings == InitSettings /\ [][Next]_vars

SpecLong == InitLong /\ [][Next]_vars

\* ---------------------------------------------------------------- queries

\* str.lower() on the model names in use.
Lower(n) ==
    CASE n = "M" -> "m"
      [] n = "Late" -> "late"
      [] OTHER -> n

\* The outcomes of a lookup that are not a model: None is returned, or
\* UnavailableApp is raised.
NotFound == [outcome |-> "None"]

Unavailable == [outcome |-> "UnavailableApp"]

\* get_model without the test of available_apps.
GetModelUnrestricted(l, n, only_installed) ==
    LET oi == IF master THEN only_installed ELSE FALSE
        models == IF l \in DOMAIN all_models THEN all_models[l] ELSE <<>>
        idx == IndexOf(models, Lower(n))
    IN  IF oi /\ ~HasLabel(l) THEN NotFound
        ELSE IF idx = 0 THEN NotFound ELSE models[idx]

\* get_model that looks the name up as it is given.
GetModelCaseSensitive(l, n, only_installed) ==
    LET oi == IF master THEN only_installed ELSE FALSE
        models == IF l \in DOMAIN all_models THEN all_models[l] ELSE <<>>
        idx == IndexOf(models, n)
    IN  IF oi /\ ~HasLabel(l) THEN NotFound
        ELSE IF oi /\ available_apps # <<>> /\ ConfigOf(l) \notin available_apps[1]
        THEN Unavailable
        ELSE IF idx = 0 THEN NotFound ELSE models[idx]

\* get_model(app_label, model_name, only_installed), once populate_models
\* has returned: the model, "None", or the exception raised.
GetModel(l, n, only_installed) ==
    LET oi == IF master THEN only_installed ELSE FALSE
        models == IF l \in DOMAIN all_models THEN all_models[l] ELSE <<>>
        idx == IndexOf(models, Lower(n))
    IN  IF oi /\ ~HasLabel(l) THEN NotFound
        ELSE IF oi /\ available_apps # <<>> /\ ConfigOf(l) \notin available_apps[1]
        THEN Unavailable
        ELSE IF idx = 0 THEN NotFound ELSE models[idx]

\* get_app_configs(only_with_models_module), once population has returned:
\* the AppConfigs it yields, in order.
GetAppConfigs(only_with_models_module) ==
    SelectSeq(app_configs,
              LAMBDA a : /\ ~(only_with_models_module /\ ~models_module[a])
                         /\ ~(available_apps # <<>> /\ a \notin available_apps[1]))

\* --------------------------------- restriction, scoped contexts, load_app

\* The application names and the sets of names these operations are called
\* with.
ScopedApps == {INSTALLED_APPS[1], ExtraApp}

AvailableSets == {{INSTALLED_APPS[1]}, {ExtraApp}}

\* A thread with no call in progress makes its next call.
Enter(t) ==
    /\ stack[t] = <<>>
    /\ calls[t] > 0
    /\ calls' = [calls EXCEPT ![t] = @ - 1]
    /\ exc' = [exc EXCEPT ![t] = "none"]

\* An _empty() context that also takes the registry back to unpopulated.
BeginEmptyResetting(t) ==
    /\ Enter(t)
    /\ scopes' = Append(scopes, [kind |-> "empty", by |-> t, saved |-> app_configs,
                                 entry |-> app_configs,
                                 entry_available |-> available_apps])
    /\ app_configs' = <<>>
    /\ _apps_loaded' = FALSE
    /\ _models_loaded' = FALSE
    /\ UNCHANGED <<INSTALLED_APPS, master, all_models, available_apps,
                   _postponed, _get_models_cache,
                   models_module, sys_modules, retries, mgmtVars, lock, stack>>

\* with app_cache._empty(): entry.
BeginEmpty(t) ==
    /\ Enter(t)
    /\ scopes' = Append(scopes, [kind |-> "empty", by |-> t, saved |-> app_configs,
                                 entry |-> app_configs,
                                 entry_available |-> available_apps])
    /\ app_configs' = <<>>
    /\ UNCHANGED <<INSTALLED_APPS, master, all_models, available_apps, _apps_loaded,
                   _models_loaded, _postponed, _get_models_cache,
                   models_module, sys_modules, retries, mgmtVars, lock, stack>>

\* with app_cache._without_app(app_name): entry.
BeginWithoutApp(t) ==
    /\ Enter(t)
    /\ \E a \in ScopedApps :
          /\ scopes' = Append(scopes,
                [kind |-> "without_app", by |-> t,
                 saved |-> IF HasLabel(Label(a)) THEN <<ConfigOf(Label(a))>>
                           ELSE <<>>,
                 entry |-> app_configs,
                 entry_available |-> available_apps])
          /\ app_configs' = Remove(app_configs, a)
    /\ UNCHANGED <<INSTALLED_APPS, master, all_models, available_apps, _apps_loaded,
                   _models_loaded, _postponed, _get_models_cache,
                   models_module, sys_modules, retries, mgmtVars, lock, stack>>

\* unset_available_apps()
UnsetAvailableApps(t) ==
    /\ Enter(t)
    /\ available_apps' = <<>>
    /\ UNCHANGED <<INSTALLED_APPS, master, all_models, app_configs, _apps_loaded,
                   _models_loaded, _postponed, _get_models_cache,
                   models_module, envVars, lock, stack>>

\* with app_cache._with_app(app_name): entry.  AppConfig.create imports the
\* application module, which may fail; an application that is registered is
\* left alone; otherwise its models unit is imported.
WA_Create(t) ==
    /\ Running(t, "_begin_with_app", "create")
    /\ \/ /\ exc' = [exc EXCEPT ![t] = "ImportError"]
          /\ Return(t)
          /\ UNCHANGED <<all_models, scopes>>
       \/ IF HasLabel(Label(Top(t).app))
          THEN /\ scopes' = Append(scopes,
                     [kind |-> "with_app", by |-> t, saved |-> <<>>,
                      entry |-> app_configs,
                      entry_available |-> available_apps])
               /\ Return(t)
               /\ UNCHANGED <<all_models, exc>>
          ELSE /\ all_models' = Touch(all_models, Label(Top(t).app))
               /\ CallFrom(t, [Top(t) EXCEPT !.pc = "after_im",
                                   !.before = app_configs,
                                   !.before_available = available_apps],
                           [Frame("import_models", "start") EXCEPT
                               !.app = Top(t).app])
               /\ UNCHANGED <<scopes, exc>>
    /\ UNCHANGED <<INSTALLED_APPS, master, app_configs, available_apps, _apps_loaded,
                   _models_loaded, _postponed, _get_models_cache,
                   models_module, sys_modules, retries, mgmtVars, lock, calls>>

\* import_models has returned or raised: the AppConfig is stored and made
\* available, and the scope is entered.
WA_Store(t) ==
    /\ Running(t, "_begin_with_app", "after_im")
    /\ IF exc[t] # "none"
       THEN /\ Return(t)
            /\ UNCHANGED <<app_configs, available_apps, scopes>>
       ELSE /\ app_configs' = Put(app_configs, Top(t).app)
            /\ available_apps' =
                  IF available_apps = <<>> THEN <<>>
                  ELSE <<available_apps[1] \cup {Top(t).app}>>
            /\ scopes' = Append(scopes,
                  [kind |-> "with_app", by |-> t, saved |-> <<Top(t).app>>,
                   entry |-> Top(t).before,
                   entry_available |-> Top(t).before_available])
            /\ Return(t)
    /\ UNCHANGED <<INSTALLED_APPS, master, all_models, _apps_loaded, _models_loaded,
                   _postponed, _get_models_cache, models_module, sys_modules,
                   retries, mgmtVars, lock, exc, calls>>

\* The end of a scope that restores nothing.
EndScopeForgetting(t) ==
    /\ stack[t] = <<>>
    /\ scopes # <<>>
    /\ scopes[Len(scopes)].by = t
    /\ scopes' = SubSeq(scopes, 1, Len(scopes) - 1)
    /\ UNCHANGED <<regVars, sys_modules, retries, mgmtVars, lock, stack, exc, calls>>

\* The innermost open scope ends, in the thread that opened it, normally or
\* by an exception of its body:
\* _end_empty, _end_without_app or _end_with_app.
EndScope(t) ==
    /\ stack[t] = <<>>
    /\ scopes # <<>>
    /\ scopes[Len(scopes)].by = t
    /\ scopes' = SubSeq(scopes, 1, Len(scopes) - 1)
    /\ LET sc == scopes[Len(scopes)]
       IN  IF sc.kind = "empty"
           THEN /\ app_configs' = sc.saved
                /\ UNCHANGED <<available_apps, exc>>
           ELSE IF sc.saved = <<>>
           THEN UNCHANGED <<app_configs, available_apps, exc>>
           ELSE IF sc.kind = "without_app"
           THEN /\ app_configs' = Put(app_configs, sc.saved[1])
                /\ UNCHANGED <<available_apps, exc>>
           ELSE IF HasLabel(Label(sc.saved[1]))
           THEN /\ app_configs' = Remove(app_configs, sc.saved[1])
                /\ available_apps' =
                      IF available_apps = <<>> THEN <<>>
                      ELSE <<available_apps[1] \ {sc.saved[1]}>>
                /\ UNCHANGED exc
           ELSE /\ exc' = [exc EXCEPT ![t] = "KeyError"]
                /\ UNCHANGED <<app_configs, available_apps>>
    /\ UNCHANGED <<INSTALLED_APPS, master, all_models, _apps_loaded, _models_loaded,
                   _postponed, _get_models_cache, models_module, sys_modules,
                   retries, mgmtVars, lock, stack, calls>>

\* load_app(app_name): AppConfig.create, which may fail, then the import of
\* the models unit.
LA_Create(t) ==
    /\ Running(t, "load_app", "create")
    /\ \/ /\ exc' = [exc EXCEPT ![t] = "ImportError"]
          /\ Return(t)
          /\ UNCHANGED all_models
       \/ /\ all_models' = Touch(all_models, Label(Top(t).app))
          /\ CallFrom(t, [Top(t) EXCEPT !.pc = "after_im"],
                      [Frame("import_models", "start") EXCEPT
                          !.app = Top(t).app])
          /\ UNCHANGED exc
    /\ UNCHANGED <<INSTALLED_APPS, master, app_configs, available_apps, _apps_loaded,
                   _models_loaded, _postponed, _get_models_cache,
                   models_module, envVars, lock, calls>>

\* self.app_configs[app_config.label] = app_config
LA_Store(t) ==
    /\ Running(t, "load_app", "after_im")
    /\ app_configs' = IF exc[t] # "none" THEN app_configs
                      ELSE Put(app_configs, Top(t).app)
    /\ Return(t)
    /\ UNCHANGED <<INSTALLED_APPS, master, all_models, available_apps, _apps_loaded,
                   _models_loaded, _postponed, _get_models_cache,
                   models_module, envVars, lock, exc, calls>>

\* set_available_apps without the test for an active restriction.
SA_StartAlways(t) ==
    /\ Running(t, "set_available_apps", "start")
    /\ CallFrom(t, [Top(t) EXCEPT !.pc = "after_pa"],
                Frame("populate_apps", "check"))
    /\ UNCHANGED <<regVars, envVars, lock, exc, calls>>

\* set_available_apps(available): refused while a restriction is active;
\* otherwise get_app_configs() is iterated, which calls populate_apps.
SA_Start(t) ==
    /\ Running(t, "set_available_apps", "start")
    /\ IF available_apps # <<>>
       THEN /\ exc' = [exc EXCEPT ![t] = "RuntimeError"]
            /\ Return(t)
       ELSE /\ CallFrom(t, [Top(t) EXCEPT !.pc = "after_pa"],
                        Frame("populate_apps", "check"))
            /\ UNCHANGED exc
    /\ UNCHANGED <<regVars, envVars, lock, calls>>

\* set_available_apps without the validation of its argument.
SA_SetUnchecked(t) ==
    /\ Running(t, "set_available_apps", "after_pa")
    /\ IF exc[t] # "none"
       THEN UNCHANGED <<available_apps, exc>>
       ELSE /\ available_apps' = <<Top(t).available>>
            /\ UNCHANGED exc
    /\ Return(t)
    /\ UNCHANGED <<INSTALLED_APPS, master, all_models, app_configs, _apps_loaded,
                   _models_loaded, _postponed, _get_models_cache,
                   models_module, envVars, lock, calls>>

\* set_available_apps that also drops the excluded AppConfigs.
SA_SetPruning(t) ==
    /\ Running(t, "set_available_apps", "after_pa")
    /\ IF exc[t] # "none"
       THEN UNCHANGED <<available_apps, app_configs, exc>>
       ELSE IF Top(t).available \subseteq Range(GetAppConfigs(FALSE))
       THEN /\ available_apps' = <<Top(t).available>>
            /\ app_configs' = SelectSeq(app_configs,
                                        LAMBDA a : a \in Top(t).available)
            /\ UNCHANGED exc
       ELSE /\ exc' = [exc EXCEPT ![t] = "ValueError"]
            /\ UNCHANGED <<available_apps, app_configs>>
    /\ Return(t)
    /\ UNCHANGED <<INSTALLED_APPS, master, all_models, _apps_loaded,
                   _models_loaded, _postponed, _get_models_cache,
                   models_module, envVars, lock, calls>>

\* The names must all be names of installed apps.
SA_Set(t) ==
    /\ Running(t, "set_available_apps", "after_pa")
    /\ IF exc[t] # "none"
       THEN UNCHANGED <<available_apps, exc>>
       ELSE IF Top(t).available \subseteq Range(GetAppConfigs(FALSE))
       THEN /\ available_apps' = <<Top(t).available>>
            /\ UNCHANGED exc
       ELSE /\ exc' = [exc EXCEPT ![t] = "ValueError"]
            /\ UNCHANGED available_apps
    /\ Return(t)
    /\ UNCHANGED <<INSTALLED_APPS, master, all_models, app_configs, _apps_loaded,
                   _models_loaded, _postponed, _get_models_cache,
                   models_module, envVars, lock, calls>>

ScopedCalls ==
    {[Frame(fn, "create") EXCEPT !.app = a] :
        fn \in {"_begin_with_app", "load_app"}, a \in ScopedApps}
    \cup {[Frame("set_available_apps", "start") EXCEPT !.available = S] :
             S \in AvailableSets}

ScopedCall(t) ==
    /\ Enter(t)
    /\ \E f \in ScopedCalls : stack' = [stack EXCEPT ![t] = <<f>>]
    /\ UNCHANGED <<regVars, envVars, lock>>

NextScoped ==
    \/ Next
    \/ \E t \in Threads :
          \/ ScopedCall(t)
          \/ BeginEmpty(t) \/ BeginWithoutApp(t) \/ EndScope(t)
          \/ WA_Create(t) \/ WA_Store(t)
          \/ LA_Create(t) \/ LA_Store(t)
          \/ SA_Start(t) \/ SA_Set(t) \/ UnsetAvailableApps(t)

\* One thread makes a sequence of calls, among them the restriction, the
\* scoped contexts and load_app.
SpecScoped == Init /\ [][NextScoped]_vars

\* The calls made inside and outside the scoped contexts.
ContextCalls ==
    {[Frame("_begin_with_app", "create") EXCEPT !.app = a] : a \in ScopedApps}
    \cup {[Frame("set_available_apps", "start") EXCEPT !.available = S] :
             S \in AvailableSets}
    \cup {[Frame("get_models", "start") EXCEPT !.key = k] : k \in Keys}

ContextCall(t) ==
    /\ Enter(t)
    /\ \E f \in ContextCalls : stack' = [stack EXCEPT ![t] = <<f>>]
    /\ UNCHANGED <<regVars, envVars, lock>>

NextContexts ==
    \E t \in Threads :
        \/ ContextCall(t)
        \/ BeginEmpty(t) \/ BeginWithoutApp(t) \/ EndScope(t)
        \/ WA_Create(t) \/ WA_Store(t)
        \/ SA_Start(t) \/ SA_Set(t)
        \/ GM_Start(t) \/ GM_Compute(t) \/ GM_Store(t)
        \/ PA_Check(t) \/ PA_Lock(t) \/ PA_Check2(t) \/ PA_Create(t) \/ PA_Done(t)
        \/ PM_Check(t) \/ PM_Lock(t) \/ PM_Check2(t) \/ PM_Begin(t)
        \/ PM_Loop(t) \/ PM_AfterImport(t) \/ PM_EndPass(t)
        \/ PM_Retry(t) \/ PM_AfterRetry(t) \/ PM_Done(t)
        \/ IM_Start(t) \/ IM_Register(t) \/ IM_Finish(t) \/ IM_Fail(t)

\* One thread makes a sequence of calls, among them the scoped contexts,
\* the restriction and get_models.
SpecContexts == InitContexts /\ [][NextContexts]_vars

\* get_models calls with restrictions set and lifted between them.
ToggleCalls ==
    {[Frame("get_models", "start") EXCEPT !.key = k] : k \in Keys}
    \cup {[Frame("set_available_apps", "start") EXCEPT !.available = S] :
             S \in {{INSTALLED_APPS[1]}, {}}}

ToggleCall(t) ==
    /\ Enter(t)
    /\ \E f \in ToggleCalls : stack' = [stack EXCEPT ![t] = <<f>>]
    /\ UNCHANGED <<regVars, envVars, lock>>

NextToggle ==
    \E t \in Threads :
        \/ ToggleCall(t) \/ UnsetAvailableApps(t)
        \/ SA_Start(t) \/ SA_Set(t)
        \/ GM_Start(t) \/ GM_Compute(t) \/ GM_Store(t)
        \/ PA_Check(t) \/ PA_Lock(t) \/ PA_Check2(t) \/ PA_Create(t) \/ PA_Done(t)
        \/ PM_Check(t) \/ PM_Lock(t) \/ PM_Check2(t) \/ PM_Begin(t)
        \/ PM_Loop(t) \/ PM_AfterImport(t) \/ PM_EndPass(t)
        \/ PM_Retry(t) \/ PM_AfterRetry(t) \/ PM_Done(t)
        \/ IM_Start(t) \/ IM_Register(t) \/ IM_Finish(t) \/ IM_Fail(t)

\* One thread calls get_models, set_available_apps and
\* unset_available_apps in any order.
SpecToggle == InitToggle /\ [][NextToggle]_vars

\* ------------------------------------------- get_model, get_app_config[s]

\* The failures of get_app_config: no AppConfig under the label, an
\* AppConfig without a models module.
NotInstalled == [outcome |-> "LookupError", why |-> "label"]

NoModelsModule == [outcome |-> "LookupError", why |-> "models_module"]

AppConfigOf(a) == [outcome |-> "AppConfig", name |-> a]

\* get_app_config without the test of available_apps.
GetAppConfigUnrestricted(l, only_with_models_module) ==
    IF ~HasLabel(l) THEN NotInstalled
    ELSE IF only_with_models_module /\ ~models_module[ConfigOf(l)]
    THEN NoModelsModule
    ELSE AppConfigOf(ConfigOf(l))

\* get_app_config(app_label, only_with_models_module), once population has
\* returned: the AppConfig, or the exception raised.
GetAppConfig(l, only_with_models_module) ==
    IF ~HasLabel(l) THEN NotInstalled
    ELSE IF only_with_models_module /\ ~models_module[ConfigOf(l)]
    THEN NoModelsModule
    ELSE IF available_apps # <<>> /\ ConfigOf(l) \notin available_apps[1]
    THEN Unavailable
    ELSE AppConfigOf(ConfigOf(l))

\* The exception an outcome stands for, "none" for a returned value.
Raised(o) ==
    IF o \in {NotInstalled, NoModelsModule, Unavailable} THEN o.outcome
    ELSE "none"

\* ------------------------------------------------------ has_app, has_model

\* has_app(app_name): the AppConfig stored under the last segment of the
\* name, when its name is the whole name.
HasApp(app_name) ==
    IF HasLabel(Label(app_name)) /\ ConfigOf(Label(app_name)) = app_name
    THEN AppConfigOf(app_name)
    ELSE NotFound

\* has_model(app_label, model_name): the registered model, or None.
HasModel(l, n) ==
    LET models == IF l \in DOMAIN all_models THEN all_models[l] ELSE <<>>
        idx == IndexOf(models, Lower(n))
    IN  IF idx = 0 THEN NotFound ELSE models[idx]

\* has_app that populates before it answers.
HA_CallPopulating(t) ==
    /\ Running(t, "has_app", "start")
    /\ CallFrom(t, [Top(t) EXCEPT !.pc = "after_pa"],
                Frame("populate_apps", "check"))
    /\ UNCHANGED <<regVars, envVars, lock, exc, calls>>

\* has_app(app_name): one lookup in app_configs.
HA_Call(t) ==
    /\ Running(t, "has_app", "start")
    /\ Return(t)
    /\ UNCHANGED <<regVars, envVars, lock, exc, calls>>

\* has_model(app_label, model_name): one lookup in all_models, which creates
\* the entry of the label.
HM_Call(t) ==
    /\ Running(t, "has_model", "start")
    /\ all_models' = Touch(all_models, Top(t).label)
    /\ Return(t)
    /\ UNCHANGED <<INSTALLED_APPS, master, app_configs, available_apps,
                   _apps_loaded, _models_loaded, _postponed, _get_models_cache,
                   models_module, envVars, lock, exc, calls>>

\* The names has_app and has_model are called with.
ProbeApps == {INSTALLED_APPS[1], DupApp, ExtraApp}

ProbeCalls ==
    {Frame("populate_apps", "check"), Frame("populate_models", "check")}
    \cup {[Frame("has_app", "start") EXCEPT !.app = a] : a \in ProbeApps}
    \cup {[Frame("has_model", "start") EXCEPT !.label = Label(a), !.name = "M"] :
             a \in ProbeApps}

ProbeCall(t) ==
    /\ Enter(t)
    /\ \E f \in ProbeCalls : stack' = [stack EXCEPT ![t] = <<f>>]
    /\ UNCHANGED <<regVars, envVars, lock>>

NextProbes ==
    \E t \in Threads :
        \/ ProbeCall(t) \/ HA_Call(t) \/ HM_Call(t)
        \/ PA_Check(t) \/ PA_Lock(t) \/ PA_Check2(t) \/ PA_Create(t) \/ PA_Done(t)
        \/ PM_Check(t) \/ PM_Lock(t) \/ PM_Check2(t) \/ PM_Begin(t)
        \/ PM_Loop(t) \/ PM_AfterImport(t) \/ PM_EndPass(t)
        \/ PM_Retry(t) \/ PM_AfterRetry(t) \/ PM_Done(t)
        \/ IM_Start(t) \/ IM_Register(t) \/ IM_Finish(t) \/ IM_Fail(t)

\* Threads populate the registry and call has_app and has_model,
\* concurrently.
SpecProbes == InitProbes /\ [][NextProbes]_vars

\* get_model(app_label, model_name, only_installed) calls populate_models.
GT_Start(t) ==
    /\ Running(t, "get_model", "start")
    /\ CallFrom(t, [Top(t) EXCEPT !.pc = "after_pm"],
                Frame("populate_models", "check"))
    /\ UNCHANGED <<regVars, envVars, lock, exc, calls>>

\* populate_models has returned or raised; the lookup.  The last line reads
\* self.all_models[app_label], which creates the entry of the label.
GT_Lookup(t) ==
    /\ Running(t, "get_model", "after_pm")
    /\ IF exc[t] # "none"
       THEN UNCHANGED <<all_models, exc>>
       ELSE LET o == GetModel(Top(t).label, Top(t).name, Top(t).flag)
                early == /\ master
                         /\ Top(t).flag
                         /\ ~HasLabel(Top(t).label)
            IN  /\ exc' = IF Raised(o) = "none" THEN exc
                          ELSE [exc EXCEPT ![t] = Raised(o)]
                /\ all_models' = IF early \/ Raised(o) # "none" THEN all_models
                                 ELSE Touch(all_models, Top(t).label)
    /\ Return(t)
    /\ UNCHANGED <<INSTALLED_APPS, master, app_configs, available_apps,
                   _apps_loaded, _models_loaded, _postponed, _get_models_cache,
                   models_module, envVars, lock, calls>>

\* get_app_config that always populates the models.
GC_StartModels(t) ==
    /\ Running(t, "get_app_config", "start")
    /\ CallFrom(t, [Top(t) EXCEPT !.pc = "after_p"],
                Frame("populate_models", "check"))
    /\ UNCHANGED <<regVars, envVars, lock, exc, calls>>

\* get_app_config(app_label, only_with_models_module) calls populate_models
\* or populate_apps.
GC_Start(t) ==
    /\ Running(t, "get_app_config", "start")
    /\ CallFrom(t, [Top(t) EXCEPT !.pc = "after_p"],
                IF Top(t).flag THEN Frame("populate_models", "check")
                ELSE Frame("populate_apps", "check"))
    /\ UNCHANGED <<regVars, envVars, lock, exc, calls>>

\* Population has returned or raised; the lookup.
GC_Lookup(t) ==
    /\ Running(t, "get_app_config", "after_p")
    /\ exc' = IF exc[t] # "none" THEN exc
              ELSE LET o == GetAppConfig(Top(t).label, Top(t).flag)
                   IN  IF Raised(o) = "none" THEN exc
                       ELSE [exc EXCEPT ![t] = Raised(o)]
    /\ Return(t)
    /\ UNCHANGED <<regVars, envVars, lock, calls>>

\* get_app_configs(only_with_models_module), iterated by its caller: the
\* generator calls populate_models or populate_apps first.
GS_Start(t) ==
    /\ Running(t, "get_app_configs", "start")
    /\ CallFrom(t, [Top(t) EXCEPT !.pc = "after_p"],
                IF Top(t).flag THEN Frame("populate_models", "check")
                ELSE Frame("populate_apps", "check"))
    /\ UNCHANGED <<regVars, envVars, lock, exc, calls>>

\* Population has returned or raised; the AppConfigs are yielded.
GS_Yield(t) ==
    /\ Running(t, "get_app_configs", "after_p")
    /\ Return(t)
    /\ UNCHANGED <<regVars, envVars, lock, exc, calls>>

\* A caller lists get_app_configs(), restricts the registry with
\* set_available_apps(available), lifts the restriction with
\* unset_available_apps() and lists get_app_configs() again.
RT_List(t) ==
    /\ Running(t, "restriction_round_trip", "start")
    /\ CallFrom(t, [Top(t) EXCEPT !.pc = "listed"],
                Frame("get_app_configs", "start"))
    /\ UNCHANGED <<regVars, envVars, lock, exc, calls>>

\* The first listing is kept, and set_available_apps is called.
RT_Set(t) ==
    /\ Running(t, "restriction_round_trip", "listed")
    /\ IF exc[t] # "none"
       THEN Return(t)
       ELSE CallFrom(t, [Top(t) EXCEPT !.pc = "restricted",
                                      !.before = GetAppConfigs(FALSE)],
                     [Frame("set_available_apps", "start") EXCEPT
                         !.available = Top(t).available])
    /\ UNCHANGED <<regVars, envVars, lock, exc, calls>>

\* unset_available_apps(), then the second listing.
RT_Unset(t) ==
    /\ Running(t, "restriction_round_trip", "restricted")
    /\ IF exc[t] # "none"
       THEN /\ Return(t)
            /\ UNCHANGED available_apps
       ELSE /\ available_apps' = <<>>
            /\ CallFrom(t, [Top(t) EXCEPT !.pc = "relisted"],
                        Frame("get_app_configs", "start"))
    /\ UNCHANGED <<INSTALLED_APPS, master, all_models, app_configs, _apps_loaded,
                   _models_loaded, _postponed, _get_models_cache,
                   models_module, envVars, lock, exc, calls>>

RT_Done(t) ==
    /\ Running(t, "restriction_round_trip", "relisted")
    /\ Return(t)
    /\ UNCHANGED <<regVars, envVars, lock, exc, calls>>

\* The labels, model names and sets of names the queries are called with.
QueryLabels == {Label(INSTALLED_APPS[1]), Label(BareApp), Label(ExtraApp)}

QueryNames == {"M", "Late"}

QuerySets == {{INSTALLED_APPS[1]}, {}}

QueryCalls ==
    {[Frame("get_model", "start") EXCEPT !.label = l, !.name = n, !.flag = f] :
        l \in QueryLabels, n \in QueryNames, f \in BOOLEAN}
    \cup {[Frame("get_app_config", "start") EXCEPT !.label = l, !.flag = f] :
             l \in QueryLabels \cup {NotInstalledLabel}, f \in BOOLEAN}
    \cup {[Frame("get_app_configs", "start") EXCEPT !.flag = f] : f \in BOOLEAN}
    \cup {[Frame("get_models", "start") EXCEPT !.key = k] : k \in Keys}
    \cup {[Frame("set_available_apps", "start") EXCEPT !.available = S] :
             S \in QuerySets}
    \cup {[Frame("load_app", "create") EXCEPT !.app = a] : a \in ScopedApps}
    \cup {[Frame("restriction_round_trip", "start") EXCEPT !.available = S] :
             S \in QuerySets}

QueryCall(t) ==
    /\ Enter(t)
    /\ \E f \in QueryCalls : stack' = [stack EXCEPT ![t] = <<f>>]
    /\ UNCHANGED <<regVars, envVars, lock>>

NextQueries ==
    \E t \in Threads :
        \/ QueryCall(t) \/ UnsetAvailableApps(t)
        \/ GT_Start(t) \/ GT_Lookup(t)
        \/ GC_Start(t) \/ GC_Lookup(t)
        \/ GS_Start(t) \/ GS_Yield(t)
        \/ RT_List(t) \/ RT_Set(t) \/ RT_Unset(t) \/ RT_Done(t)
        \/ GM_Start(t) \/ GM_Compute(t) \/ GM_Store(t)
        \/ SA_Start(t) \/ SA_Set(t)
        \/ LA_Create(t) \/ LA_Store(t)
        \/ PA_Check(t) \/ PA_Lock(t) \/ PA_Check2(t) \/ PA_Create(t) \/ PA_Done(t)
        \/ PM_Check(t) \/ PM_Lock(t) \/ PM_Check2(t) \/ PM_Begin(t)
        \/ PM_Loop(t) \/ PM_AfterImport(t) \/ PM_EndPass(t)
        \/ PM_Retry(t) \/ PM_AfterRetry(t) \/ PM_Done(t)
        \/ IM_Start(t) \/ IM_Register(t) \/ IM_Finish(t) \/ IM_Fail(t)

\* One thread makes a sequence of calls, among them the queries and the
\* restriction.
SpecQueries == InitQueries /\ [][NextQueries]_vars

\* ------------------------------------------------------------ properties

\* Thread t takes the step, and the frame that acts is one of fn.
StepOf(t, fn) ==
    /\ stack[t] # <<>>
    /\ stack'[t] # stack[t]
    /\ Top(t).fn = fn

\* Thread t is inside the locked body of a population method.
InBody(t) ==
    \E i \in 1 .. Len(stack[t]) :
        /\ stack[t][i].fn \in {"populate_apps", "populate_models"}
        /\ stack[t][i].pc \notin {"check", "lock"}

\* Thread t is creating AppConfigs (resp. importing models units).
Creating(t) ==
    \E i \in 1 .. Len(stack[t]) :
        stack[t][i].fn = "populate_apps" /\ stack[t][i].pc = "loop"

Importing(t) ==
    \E i \in 1 .. Len(stack[t]) :
        /\ stack[t][i].fn = "populate_models"
        /\ stack[t][i].pc \in {"loop", "loop_wait", "retry", "retry_wait"}

\* The number of entries of the list that are a.
Count(a, list) == Cardinality({i \in 1 .. Len(list) : list[i] = a})

\* The index of the outermost populate_models frame of t.
FirstPM(t) ==
    CHOOSE i \in 1 .. Len(stack[t]) :
        /\ stack[t][i].fn = "populate_models"
        /\ \A j \in 1 .. (i - 1) : stack[t][j].fn # "populate_models"

\* The step stores a model in all_models.
Stored ==
    \E l \in DOMAIN all_models' : all_models'[l] # Touch(all_models, l)[l]

\* Every get_models call about to be answered from the cache finds there
\* the list that the registry as it is now gives for its key.
HitsCurrent ==
    \A t \in Threads :
        Running(t, "get_models", "start")
        => LET k == CacheKey(Top(t).key)
           IN  Hit(k) => _get_models_cache[k] = ModelList(k)

\* C1: once population has completed (the flag is set), every step of a
\* populate_apps (resp. populate_models) invocation leaves the registry and
\* the loaded units unchanged and calls nothing: no AppConfig is created and
\* no models unit is imported.
C1_Idempotent ==
    [][\A t \in Threads :
          (\/ StepOf(t, "populate_apps") /\ _apps_loaded
           \/ StepOf(t, "populate_models") /\ _models_loaded)
          => /\ regVars' = regVars
             /\ envVars' = envVars
             /\ Len(stack'[t]) <= Len(stack[t])]_vars

\* A thread that passed the first check before another thread completed the
\* population is at the second check, inside the lock, with the flag set.
C1_Witness ==
    /\ master
    /\ _apps_loaded
    /\ _models_loaded
    /\ \E t \in Threads : Running(t, "populate_models", "check2")

\* C2: in every state, _models_loaded implies _apps_loaded.
C2_ModelsImpliesApps == _models_loaded => _apps_loaded

\* A master registry whose models are populated, inside a scoped context
\* that has emptied app_configs.
C2_Witness ==
    /\ master
    /\ _models_loaded
    /\ scopes # <<>>
    /\ app_configs = <<>>

\* C3: a thread inside a population body holds the import lock, so no two
\* threads are inside one at the same time; and a thread creates AppConfigs
\* (imports models units) only while the corresponding flag is still false.
C3_MutualExclusion ==
    /\ \A t \in Threads : InBody(t) => lock.owner = t /\ lock.count >= 1
    /\ \A t1, t2 \in Threads : InBody(t1) /\ InBody(t2) => t1 = t2
    /\ \A t \in Threads : Creating(t) => ~_apps_loaded
    /\ \A t \in Threads : Importing(t) => ~_models_loaded

\* One thread is importing models units while another waits for the lock.
C3_Witness ==
    \E t1, t2 \in Threads :
        /\ t1 # t2
        /\ Importing(t1)
        /\ Running(t2, "populate_models", "lock")

\* C4: a step that stores a model empties the whole cache; and whenever a
\* get_models call is about to be answered from the cache, the cached list
\* is the list computed from the registry as it is now.
C4_CacheInvalidation ==
    [][/\ Stored => _get_models_cache' = EmptyCache
       /\ HitsCurrent']_vars

\* A model is about to be registered while the cache holds an entry that
\* lacks it.
C4_Witness ==
    \E t \in Threads :
        /\ Running(t, "import_late", "register")
        /\ \E k \in Keys : _get_models_cache[k] # NoEntry
        /\ \A m \in LateModels :
              m.label = Top(t).app => GetModel(m.label, m.name, FALSE) = NotFound

\* C5: no cache entry lacks a registered model that its key selects.
C5_NoStaleEntry ==
    \A k \in Keys :
        _get_models_cache[k] # NoEntry
        => Range(ModelList(k)) \subseteq Range(_get_models_cache[k])

\* C6 as stated: a postponed AppConfig is imported again only by the retry
\* loop of the outermost invocation, and exactly once.
C6_RetriedExactlyOnce ==
    /\ \A a \in DOMAIN retries : retries[a] <= 1
    /\ \A t \in Threads : \A i \in 2 .. Len(stack[t]) :
          (/\ stack[t][i].fn = "import_models"
           /\ _postponed # "absent"
           /\ stack[t][i].app \in Range(_postponed))
          => stack[t][i - 1].pc = "retry_wait"

\* C6 (amended): an ImportError in a pass appends the AppConfig to the list
\* and the pass goes on; only the outermost invocation runs the retry loop,
\* after its first pass; and when it completes it has called import_models
\* once for every entry of the list.
C6_RetryDiscipline ==
    [][\A t \in Threads :
          /\ (/\ StepOf(t, "populate_models")
              /\ Top(t).pc = "loop_wait"
              /\ exc[t] = "ImportError")
             => /\ _postponed' = Append(_postponed, app_configs[Top(t).i])
                /\ exc'[t] = "none"
                /\ Len(stack'[t]) = Len(stack[t])
          /\ (/\ StepOf(t, "populate_models")
              /\ Top(t).pc = "retry")
             => /\ Top(t).outermost
                /\ FirstPM(t) = Len(stack[t])
                /\ Top(t).i <= Len(_postponed)
                   => stack'[t][Len(stack'[t])].app = _postponed[Top(t).i]
                /\ Top(t).i > Len(_postponed)
                   => \A a \in DOMAIN retries : retries[a] = Count(a, _postponed)]_vars

\* The retry loop has ended after retrying an AppConfig.
C6_Witness ==
    \E t \in Threads :
        /\ Running(t, "populate_models", "retry")
        /\ Top(t).i > Len(_postponed)
        /\ \E a \in DOMAIN retries : retries[a] >= 1

\* C7: a populate_models invocation nested in another one never sets
\* _models_loaded and never removes the list of postponed AppConfigs; the
\* flag is set only by the outermost invocation when its retry loop has
\* ended, and the list is removed in the same step.
C7_OutermostMarks ==
    [][\A t \in Threads :
          /\ (StepOf(t, "populate_models") /\ FirstPM(t) # Len(stack[t]))
             => /\ ~_models_loaded'
                /\ _postponed # "absent"
                /\ _postponed' # "absent"
          /\ (StepOf(t, "populate_models") /\ ~_models_loaded /\ _models_loaded')
             => /\ FirstPM(t) = Len(stack[t])
                /\ Top(t).pc = "retry"
                /\ Top(t).i > Len(_postponed)
                /\ _postponed' = "absent"]_vars

\* A nested invocation has finished its pass and is about to return.
C7_Witness ==
    \E t \in Threads :
        /\ Running(t, "populate_models", "loop")
        /\ Top(t).i > Len(app_configs)
        /\ FirstPM(t) # Len(stack[t])
        /\ ~_models_loaded

\* C8: when a retried import raises, populate_models lets the same
\* exception through, postpones nothing, and _models_loaded stays false.
C8_SecondFailureFatal ==
    [][\A t \in Threads :
          (/\ StepOf(t, "populate_models")
           /\ Top(t).pc = "retry_wait"
           /\ exc[t] # "none")
          => /\ exc'[t] = exc[t]
             /\ _postponed' = _postponed
             /\ ~_models_loaded'
             /\ stack'[t] = SubSeq(stack[t], 1, Len(stack[t]) - 1)]_vars

\* A call has ended with the ImportError of a retried import.
C8_Witness ==
    \E t \in Threads :
        /\ stack[t] = <<>>
        /\ exc[t] = "ImportError"
        /\ _postponed # "absent"
        /\ _postponed # <<>>
        /\ ~_models_loaded

C10_OrderPreserved ==
    (master /\ _apps_loaded /\ available_apps = <<>>)
    => GetAppConfigs(FALSE) = INSTALLED_APPS

\* The models are populated and the first configured app was postponed and
\* retried, after the later ones.
C10_Witness ==
    /\ master
    /\ _models_loaded
    /\ retries[INSTALLED_APPS[1]] >= 1
    /\ GetAppConfigs(FALSE) = INSTALLED_APPS

\* The populate_apps frames of t that are past the checks, in the loop.
Resolving(t) ==
    {i \in 1 .. Len(stack[t]) :
        /\ stack[t][i].fn = "populate_apps"
        /\ stack[t][i].pc \in {"loop", "creating"}}

\* C11: a populate_apps call made while an outer populate_apps of the same
\* call chain is in its loop never enters the loop itself (it creates and
\* stores no AppConfig), and it ends with RuntimeError.
C11_NoReentry ==
    [][\A t \in Threads :
          /\ Cardinality(Resolving(t)') <= 1
          /\ (/\ StepOf(t, "populate_apps")
              /\ Len(stack'[t]) < Len(stack[t])
              /\ Resolving(t) \ {Len(stack[t])} # {})
             => exc'[t] = "RuntimeError"]_vars

\* The configured list holds two names with the same label.
DuplicateLabels ==
    \E i, j \in 1 .. Len(INSTALLED_APPS) :
        i # j /\ Label(INSTALLED_APPS[i]) = Label(INSTALLED_APPS[j])

\* C12: with two configured names of the same label, populate_apps never
\* completes with _apps_loaded true, and no step of it replaces an
\* AppConfig that is stored.
C12_DuplicateLabelFatal ==
    [][/\ (master /\ DuplicateLabels) => ~_apps_loaded'
       /\ \A t \in Threads :
             StepOf(t, "populate_apps")
             => \A i \in 1 .. Len(app_configs) : app_configs'[i] = app_configs[i]]_vars

\* The model that the step of t registers, NoModel when it registers none.
Registering(t) ==
    IF stack[t] = <<>> \/ stack'[t] = stack[t] THEN NoModel
    ELSE IF Top(t).fn = "import_late" /\ Top(t).pc = "register"
    THEN Top(t).model
    ELSE IF /\ Top(t).fn = "import_models"
            /\ Top(t).pc = "body"
            /\ Len(stack'[t]) = Len(stack[t])
            /\ stack'[t][Len(stack[t])].pc = "defined"
    THEN UnitModel(Top(t).app)
    ELSE NoModel

\* The models that get registered.
Models == LateModels \cup {UnitModel(a) : a \in Apps(INSTALLED_APPS)}

\* The model stored under the label and name of m, NoModel when none is.
Registered(m) ==
    LET models == IF m.label \in DOMAIN all_models THEN all_models[m.label]
                  ELSE <<>>
        idx == IndexOf(models, m.name)
    IN  IF idx = 0 THEN NoModel ELSE models[idx]

\* C13: a model that is registered is never replaced by the registration
\* of a model of the same label and name defined in another file.
C13_FirstRegistrationWins ==
    [][\A t \in Threads : \A m \in Models :
          (/\ Registering(t) = m
           /\ Registered(m) # NoModel
           /\ SplitExt(Registered(m)) # SplitExt(m))
          => Registered(m)' = Registered(m)]_vars

\* C14: registering a model whose label and name are registered from the
\* same file (whatever the extension) raises nothing, leaves all_models as
\* it is - one entry for the name, the first-registered model - and
\* leaves the cache as it is.
C14_DuplicateTolerated ==
    [][\A t \in Threads : \A m \in Models :
          (/\ Registering(t) = m
           /\ Registered(m) # NoModel
           /\ SplitExt(Registered(m)) = SplitExt(m))
          => /\ exc'[t] = exc[t]
             /\ all_models' = all_models
             /\ Count(m.name, [i \in 1 .. Len(all_models[m.label]) |->
                                 all_models[m.label][i].name]) = 1
             /\ _get_models_cache' = _get_models_cache]_vars

\* The compiled artifact of a file is about to register its model while the
\* model of the source file is registered and the cache holds a list.
C14_Witness ==
    \E t \in Threads :
        /\ Running(t, "import_late", "register")
        /\ Registered(Top(t).model) # NoModel
        /\ Registered(Top(t).model).ext # Top(t).model.ext
        /\ SplitExt(Registered(Top(t).model)) = SplitExt(Top(t).model)
        /\ \E k \in Keys : _get_models_cache[k] # NoEntry

\* Thread t is about to look up, in get_model with only_installed left at
\* its default of True, a label whose application an active restriction
\* excludes.
LooksUpExcluded(t) ==
    /\ Running(t, "get_model", "after_pm")
    /\ exc[t] = "none"
    /\ Top(t).flag
    /\ available_apps # <<>>
    /\ HasLabel(Top(t).label)
    /\ ConfigOf(Top(t).label) \notin available_apps[1]

\* C15 as stated: while available_apps is set and excludes an application,
\* get_model(its label, name) with the default only_installed raises
\* UnavailableApp for every name, and never returns None or a model.
C15_AlwaysUnavailable ==
    [][\A t \in Threads :
          (LooksUpExcluded(t) /\ stack'[t] # stack[t])
          => exc'[t] = "UnavailableApp"]_vars

\* C15, amended: on the master registry such a call raises UnavailableApp
\* for every name and reads no models; on a registry that is not the master
\* only_installed is ignored, and the call returns the model or None.
C15_UnavailableOnMaster ==
    [][\A t \in Threads :
          (LooksUpExcluded(t) /\ stack'[t] # stack[t])
          => IF master
             THEN /\ exc'[t] = "UnavailableApp"
                  /\ all_models' = all_models
             ELSE /\ exc'[t] = "none"
                  /\ GetModel(Top(t).label, Top(t).name, Top(t).flag)
                        \in {NotFound} \cup Range(all_models'[Top(t).label])]_vars

\* On the master, the excluded application has a model of the name asked for.
C15_Witness ==
    \E t \in Threads :
        /\ LooksUpExcluded(t)
        /\ master
        /\ GetModelUnrestricted(Top(t).label, Top(t).name, TRUE) # NotFound

\* The models the next step of thread t returns, when it is the returning
\* step of get_model or get_models.
ReturnedModels(t) ==
    IF stack[t] = <<>> \/ exc[t] # "none" THEN {}
    ELSE IF Running(t, "get_model", "after_pm")
    THEN {GetModel(Top(t).label, Top(t).name, Top(t).flag)}
            \ {NotFound, Unavailable}
    ELSE IF Running(t, "get_models", "start") /\ Hit(CacheKey(Top(t).key))
    THEN Range(Available(CacheKey(Top(t).key),
                         _get_models_cache[CacheKey(Top(t).key)]))
    ELSE IF /\ Running(t, "get_models", "store")
            /\ ~AvailableRaises(Top(t).key, Top(t).list)
    THEN Range(Available(Top(t).key, Top(t).list))
    ELSE {}

\* The AppConfigs (by application name) the next step of thread t returns,
\* when it is the returning step of get_app_config or get_app_configs.
ReturnedConfigs(t) ==
    IF stack[t] = <<>> \/ exc[t] # "none" THEN {}
    ELSE IF Running(t, "get_app_config", "after_p")
    THEN LET o == GetAppConfig(Top(t).label, Top(t).flag)
         IN  IF Raised(o) = "none" THEN {o.name} ELSE {}
    ELSE IF Running(t, "get_app_configs", "after_p")
    THEN Range(GetAppConfigs(Top(t).flag))
    ELSE {}

\* The call thread t is in asks for installed models only, and the registry
\* honours it.
InstalledOnly(t) ==
    /\ stack[t] # <<>>
    /\ master
    /\ \/ Top(t).fn = "get_model" /\ Top(t).flag
       \/ Top(t).fn = "get_models" /\ Top(t).key.only_installed

\* The model belongs to an installed application that the active
\* restriction excludes.
ExcludedModel(m) ==
    /\ available_apps # <<>>
    /\ HasLabel(m.label)
    /\ ConfigOf(m.label) \notin available_apps[1]

\* C16 as stated: while available_apps is set, no call of get_app_configs,
\* get_app_config, get_models or get_model, whatever its flags, returns an
\* AppConfig or a model of an application whose name is not in
\* available_apps.
C16_EveryQueryFiltered ==
    available_apps # <<>> =>
        \A t \in Threads :
            /\ ReturnedConfigs(t) \subseteq available_apps[1]
            /\ \A m \in ReturnedModels(t) : ~ExcludedModel(m)

\* C16, amended: while available_apps is set, get_app_configs and
\* get_app_config return no AppConfig outside it, and get_models and
\* get_model return no model of an excluded application when they are
\* called on the master registry with only_installed true.
C16_InstalledQueriesFiltered ==
    available_apps # <<>> =>
        \A t \in Threads :
            /\ ReturnedConfigs(t) \subseteq available_apps[1]
            /\ InstalledOnly(t) =>
                  \A m \in ReturnedModels(t) : ~ExcludedModel(m)

\* get_models(only_installed=True) on the master is about to return a list
\* from which the restriction has removed a model.
C16_Witness ==
    \E t \in Threads :
        /\ Running(t, "get_models", "store")
        /\ InstalledOnly(t)
        /\ available_apps # <<>>
        /\ ~AvailableRaises(Top(t).key, Top(t).list)
        /\ \E m \in Range(Top(t).list) : ExcludedModel(m)
        /\ \A m \in ReturnedModels(t) : ~ExcludedModel(m)

\* Thread t is about to look up in get_app_config, and takes that step.
AtConfigLookup(t) ==
    /\ Running(t, "get_app_config", "after_p")
    /\ exc[t] = "none"

LooksUpConfig(t) ==
    /\ AtConfigLookup(t)
    /\ stack'[t] # stack[t]

\* The label has an AppConfig that the active restriction excludes.
ExcludedLabel(l) ==
    /\ HasLabel(l)
    /\ available_apps # <<>>
    /\ ConfigOf(l) \notin available_apps[1]

\* C17: get_app_config raises LookupError for a label that is not in
\* app_configs, raises UnavailableApp for a label in app_configs whose
\* application an active restriction excludes, and otherwise returns the
\* AppConfig stored under the label.
C17_DistinctOutcomes ==
    [][\A t \in Threads :
          LooksUpConfig(t) =>
             IF ~HasLabel(Top(t).label) THEN exc'[t] = "LookupError"
             ELSE IF ExcludedLabel(Top(t).label)
             THEN exc'[t] = "UnavailableApp"
             ELSE /\ exc'[t] = "none"
                  /\ ReturnedConfigs(t) = {ConfigOf(Top(t).label)}]_vars

\* The lookup asks for an application with a models module, and the
\* AppConfig of the label has none.
LacksModelsModule(l, only_with_models_module) ==
    /\ HasLabel(l)
    /\ only_with_models_module
    /\ ~models_module[ConfigOf(l)]

\* C17, amended: LookupError for a label that is not in app_configs; for a
\* label in app_configs that passes the models-module test (or is looked up
\* without it), UnavailableApp when an active restriction excludes its
\* application and the stored AppConfig otherwise; LookupError for a label
\* whose AppConfig has no models module, is not excluded, and is looked up
\* with only_with_models_module true.
C17_Outcomes ==
    [][\A t \in Threads :
          LooksUpConfig(t) =>
             LET l == Top(t).label
                 f == Top(t).flag
             IN  IF ~HasLabel(l) THEN exc'[t] = "LookupError"
                 ELSE IF ~LacksModelsModule(l, f)
                 THEN IF ExcludedLabel(l) THEN exc'[t] = "UnavailableApp"
                      ELSE /\ exc'[t] = "none"
                           /\ ReturnedConfigs(t) = {ConfigOf(l)}
                 ELSE ~ExcludedLabel(l) => exc'[t] = "LookupError"]_vars

\* get_app_config is about to look up a label whose application is
\* excluded, without asking for a models module.
C17_Witness ==
    \E t \in Threads :
        /\ AtConfigLookup(t)
        /\ ExcludedLabel(Top(t).label)
        /\ ~Top(t).flag

\* C18: whenever the label is in app_configs and its application is
\* excluded by the active restriction, get_app_config raises UnavailableApp
\* and not LookupError, for both values of only_with_models_module and
\* whether or not the application has a models module.
C18_UnavailableBeforeNotFound ==
    [][\A t \in Threads :
          (LooksUpConfig(t) /\ ExcludedLabel(Top(t).label))
          => (exc'[t] = "UnavailableApp" /\ exc'[t] # "LookupError")]_vars

\* C19: set_available_apps called while a restriction is active raises
\* RuntimeError and leaves available_apps and the rest of the registry
\* unchanged; unset_available_apps removes the restriction, and a call made
\* without an active restriction is not refused: it goes on to
\* get_app_configs.
C19_OnceInARow ==
    [][\A t \in Threads :
          /\ (Running(t, "set_available_apps", "start") /\ stack'[t] # stack[t])
             => IF available_apps # <<>>
                THEN /\ exc'[t] = "RuntimeError"
                     /\ stack'[t] = SubSeq(stack[t], 1, Len(stack[t]) - 1)
                     /\ regVars' = regVars
                ELSE /\ exc'[t] = "none"
                     /\ Len(stack'[t]) = Len(stack[t]) + 1
                     /\ stack'[t][Len(stack'[t])].fn = "populate_apps"
          /\ (stack[t] = <<>> /\ stack'[t] = <<>> /\ calls'[t] < calls[t])
             => available_apps' = <<>>]_vars

\* set_available_apps has been called while a restriction is active.
C19_Witness ==
    \E t \in Threads :
        /\ Running(t, "set_available_apps", "start")
        /\ available_apps # <<>>

\* C20: when get_app_configs has returned, names that are not all names of
\* AppConfigs in app_configs make set_available_apps raise ValueError with
\* available_apps still None; otherwise available_apps becomes exactly the
\* given set.
C20_Validated ==
    [][\A t \in Threads :
          (/\ Running(t, "set_available_apps", "after_pa")
           /\ exc[t] = "none"
           /\ stack'[t] # stack[t])
          => IF Top(t).available \subseteq Range(app_configs)
             THEN /\ available_apps' = <<Top(t).available>>
                  /\ exc'[t] = "none"
             ELSE /\ exc'[t] = "ValueError"
                  /\ available_apps = <<>>
                  /\ regVars' = regVars]_vars

\* set_available_apps is about to validate names that are not all installed.
C20_Witness ==
    \E t \in Threads :
        /\ Running(t, "set_available_apps", "after_pa")
        /\ exc[t] = "none"
        /\ ~(Top(t).available \subseteq Range(app_configs))

\* C21: when get_app_configs() has been listed, set_available_apps(S) has
\* accepted S and unset_available_apps() has been called, get_app_configs()
\* yields the sequence it yielded before the restriction, in the same order.
C21_RoundTrip ==
    \A t \in Threads :
        (Running(t, "restriction_round_trip", "relisted") /\ exc[t] = "none")
        => GetAppConfigs(FALSE) = Top(t).before

\* The round trip has been made with a set that excluded an installed
\* application.
C21_Witness ==
    \E t \in Threads :
        /\ Running(t, "restriction_round_trip", "relisted")
        /\ exc[t] = "none"
        /\ Top(t).before # <<>>
        /\ ~(Range(Top(t).before) \subseteq Top(t).available)

\* Thread t enters a scoped context of the kind with this step.
Enters(t, kind) ==
    /\ Len(scopes') = Len(scopes) + 1
    /\ scopes'[Len(scopes')].kind = kind
    /\ scopes'[Len(scopes')].by = t

\* Thread t leaves its innermost scoped context, of the kind, with this step.
Leaves(t, kind) ==
    /\ scopes # <<>>
    /\ scopes' = SubSeq(scopes, 1, Len(scopes) - 1)
    /\ scopes[Len(scopes)].kind = kind
    /\ scopes[Len(scopes)].by = t

\* The AppConfig is stored in the mapping, under its label.
StoredIn(cfgs, a) == \E i \in 1 .. Len(cfgs) : cfgs[i] = a

LabelIn(cfgs, l) == \E i \in 1 .. Len(cfgs) : Label(cfgs[i]) = l

\* C22: entering _without_app(A) removes the label of A from app_configs,
\* and the end of the scope, after a body that returned or raised, puts
\* the AppConfig that was removed back under its label.
C22_WithoutAppSymmetry ==
    [][\A t \in Threads :
          /\ Enters(t, "without_app")
             => \A a \in Range(scopes'[Len(scopes')].saved) :
                   /\ StoredIn(app_configs, a)
                   /\ ~LabelIn(app_configs', Label(a))
          /\ Leaves(t, "without_app")
             => \A a \in Range(scopes[Len(scopes)].saved) :
                   StoredIn(app_configs', a)]_vars

\* A _without_app scope that removed an AppConfig is about to end after
\* its body raised.
C22_Witness ==
    \E t \in Threads :
        /\ stack[t] = <<>>
        /\ exc[t] # "none"
        /\ scopes # <<>>
        /\ scopes[Len(scopes)].kind = "without_app"
        /\ scopes[Len(scopes)].by = t
        /\ scopes[Len(scopes)].saved # <<>>
        /\ ~LabelIn(app_configs, Label(scopes[Len(scopes)].saved[1]))

\* The innermost scope, and app_configs as its entry left it.
Innermost == scopes[Len(scopes)]

AfterEntry(sc) ==
    IF sc.kind = "empty" THEN <<>>
    ELSE IF sc.kind = "without_app"
    THEN SelectSeq(sc.entry, LAMBDA a : a \notin Range(sc.saved))
    ELSE sc.entry \o sc.saved

\* C23: the end of a _without_app(A) scope whose body left app_configs as
\* the entry made it gives app_configs the value it had before entry,
\* order included, so that get_app_configs() yields the original order.
C23_WithoutAppRestoresOrder ==
    [][\A t \in Threads :
          (/\ Leaves(t, "without_app")
           /\ app_configs = AfterEntry(Innermost)
           /\ available_apps = Innermost.entry_available)
          => /\ app_configs' = Innermost.entry
             /\ GetAppConfigs(FALSE)' = SelectSeq(Innermost.entry,
                    LAMBDA a : available_apps = <<>> \/ a \in available_apps[1])]_vars

\* available_apps as the entry of the scope left it.
AvailableAfterEntry(sc) ==
    IF sc.kind # "with_app" \/ sc.saved = <<>> \/ sc.entry_available = <<>>
    THEN sc.entry_available
    ELSE <<sc.entry_available[1] \cup Range(sc.saved)>>

\* C24: the end of a _with_app(name) scope gives app_configs and
\* available_apps the values they had at entry, whatever the state at entry
\* was; and when the label was registered at entry, neither entry nor exit
\* changes the registry.
C24_WithAppRestores ==
    [][\A t \in Threads :
          /\ (/\ Leaves(t, "with_app")
              /\ app_configs = AfterEntry(Innermost)
              /\ available_apps = AvailableAfterEntry(Innermost))
             => /\ app_configs' = Innermost.entry
                /\ available_apps' = Innermost.entry_available
          /\ (Leaves(t, "with_app") /\ Innermost.saved = <<>>)
             => regVars' = regVars
          /\ (Enters(t, "with_app") /\ scopes'[Len(scopes')].saved = <<>>)
             => regVars' = regVars]_vars

\* Every model of the registry.
RegisteredModels == UNION {Range(all_models[l]) : l \in DOMAIN all_models}

\* C25: on the master, entering _empty() empties app_configs and leaves
\* all_models alone; while the scope is the innermost one and app_configs
\* is empty, get_app_config[s] return no AppConfig, get_models with
\* only_installed=True returns no model, and has_model finds every
\* registered model; the end of the scope reinstates the mapping.
C25_EmptyHidesInstalled ==
    [][\A t \in Threads :
          /\ Enters(t, "empty")
             => (app_configs' = <<>> /\ all_models' = all_models)
          /\ (/\ master
              /\ scopes # <<>>
              /\ Innermost.kind = "empty"
              /\ app_configs = <<>>)
             => /\ ReturnedConfigs(t) = {}
                /\ InstalledOnly(t) => ReturnedModels(t) = {}
                /\ \A m \in RegisteredModels : HasModel(m.label, m.name) = m
          /\ Leaves(t, "empty") => app_configs' = Innermost.saved]_vars

\* Thread t is in has_app or has_model.
Probing(t) ==
    /\ stack[t] # <<>>
    /\ Top(t).fn \in {"has_app", "has_model"}

\* C26: in every state has_app and has_model can take their step, which
\* returns without acquiring the import lock, without calling populate_apps
\* or populate_models and without raising, and leaves AppConfigs and flags
\* alone; has_app returns an AppConfig only if it is stored under the last
\* segment of the name and has the whole name, and has_model returns None
\* for a model that is not registered.
C26_ProbesAreSafe ==
    [][\A t \in Threads :
          Probing(t) =>
             /\ ENABLED (HA_Call(t) \/ HM_Call(t))
             /\ stack'[t] # stack[t]
                => /\ stack'[t] = <<>>
                   /\ lock' = lock
                   /\ exc'[t] = "none"
                   /\ <<app_configs, _apps_loaded, _models_loaded, sys_modules>>'
                        = <<app_configs, _apps_loaded, _models_loaded, sys_modules>>
             /\ Top(t).fn = "has_app"
                => IF StoredIn(app_configs, Top(t).app)
                   THEN HasApp(Top(t).app) = AppConfigOf(Top(t).app)
                   ELSE HasApp(Top(t).app) = NotFound
             /\ (/\ Top(t).fn = "has_model"
                 /\ \A m \in RegisteredModels :
                       ~(m.label = Top(t).label /\ m.name = Lower(Top(t).name)))
                => HasModel(Top(t).label, Top(t).name) = NotFound]_vars

\* has_model is called while another thread holds the import lock and is
\* importing models units.
C26_Witness ==
    \E t \in Threads :
        /\ Running(t, "has_model", "start")
        /\ lock.owner \notin {0, t}
        /\ ~_models_loaded
        /\ \E u \in Threads : stack[u] # <<>> /\ Top(u).fn = "import_models"

\* C27: the list get_models builds for a parameter tuple is the candidate
\* models - those of one application or of all, installed only or all -
\* in their order, without the deferred ones unless include_deferred,
\* without the auto-created ones unless include_auto_created, and without
\* the swapped ones unless include_swapped.
C27_Filtering ==
    \A t \in Threads :
        Running(t, "get_models", "store") =>
            LET k == Top(t).key
            IN  Top(t).list =
                   SelectSeq(Flatten(ModelDicts(k)),
                             LAMBDA m : /\ m.deferred => k.include_deferred
                                        /\ m.auto_created => k.include_auto_created
                                        /\ m.swapped => k.include_swapped)

\* get_models has built a list with include_deferred only, from candidates
\* among them a model that is deferred, auto-created and swapped.
C27_Witness ==
    \E t \in Threads :
        /\ Running(t, "get_models", "store")
        /\ Top(t).key.include_deferred
        /\ ~Top(t).key.include_auto_created
        /\ ~Top(t).key.include_swapped
        /\ FlaggedModels[5] \in Range(Flatten(ModelDicts(Top(t).key)))
        /\ FlaggedModels[2] \in Range(Top(t).list)
        /\ FlaggedModels[5] \notin Range(Top(t).list)

\* C28: get_models stores the list as it is before the restriction to
\* available_apps; and whatever set_available_apps / unset_available_apps
\* calls were made between get_models calls, a call answered from the cache
\* returns what the computation from the registry under the current
\* available_apps returns.
C28_CacheValidAcrossToggles ==
    [][\A t \in Threads :
          /\ (Running(t, "get_models", "store") /\ stack'[t] # stack[t])
             => _get_models_cache'[Top(t).key] = ModelList(Top(t).key)
          /\ (Running(t, "get_models", "start") /\ stack'[t] = <<>>)
             => LET k == CacheKey(Top(t).key)
                IN  /\ ~AvailableRaises(k, ModelList(k))
                    /\ Available(k, _get_models_cache[k])
                         = Available(k, ModelList(k))]_vars

\* get_models is about to answer from the cache under a restriction that
\* removes a model from the cached list.
C28_Witness ==
    \E t \in Threads :
        /\ Running(t, "get_models", "start")
        /\ Hit(CacheKey(Top(t).key))
        /\ available_apps # <<>>
        /\ Available(CacheKey(Top(t).key), _get_models_cache[CacheKey(Top(t).key)])
             # _get_models_cache[CacheKey(Top(t).key)]

\* The call thread t has made is get_app_config or get_app_configs with
\* this value of only_with_models_module.
ConfigQuery(t, only_with_models_module) ==
    /\ stack[t] # <<>>
    /\ stack[t][1].fn \in {"get_app_config", "get_app_configs"}
    /\ stack[t][1].flag = only_with_models_module

\* C29: no step of get_app_config or get_app_configs with
\* only_with_models_module false, nor of what they call, imports a models
\* unit, calls populate_models or sets _models_loaded; with
\* only_with_models_module true their first step is the call of
\* populate_models, they answer only after it, and they return only
\* AppConfigs that have a models module.
C29_MinimumPopulation ==
    [][\A t \in Threads :
          /\ (ConfigQuery(t, FALSE) /\ stack'[t] # stack[t])
             => /\ sys_modules' = sys_modules
                /\ models_module' = models_module
                /\ _models_loaded' = _models_loaded
                /\ \A i \in 1 .. Len(stack'[t]) :
                      stack'[t][i].fn \notin {"populate_models", "import_models"}
          /\ (/\ ConfigQuery(t, TRUE)
              /\ Len(stack[t]) = 1
              /\ Top(t).pc = "start"
              /\ stack'[t] # stack[t])
             => /\ Len(stack'[t]) = 2
                /\ stack'[t][1].pc = "after_p"
                /\ stack'[t][2].fn = "populate_models"
          /\ (/\ ConfigQuery(t, TRUE)
              /\ Len(stack[t]) = 1
              /\ stack'[t] = <<>>)
             => /\ Top(t).pc = "after_p"
                /\ \A a \in ReturnedConfigs(t) : models_module[a]]_vars

\* On the master, get_app_config without only_with_models_module is about
\* to answer: the applications are loaded and the models are not.
C29_Witness ==
    \E t \in Threads :
        /\ Running(t, "get_app_config", "after_p")
        /\ ~Top(t).flag
        /\ exc[t] = "none"
        /\ master
        /\ _apps_loaded
        /\ ~_models_loaded
        /\ ReturnedConfigs(t) # {}

\* ------------------------------------------- termination of the population

\* The calls that populate the registry.
PopulateCalls ==
    {Frame("populate_apps", "check"), Frame("populate_models", "check")}

PopulateCall(t) ==
    /\ stack[t] = <<>>
    /\ calls[t] > 0
    /\ calls' = [calls EXCEPT ![t] = @ - 1]
    /\ exc' = [exc EXCEPT ![t] = "none"]
    /\ \E f \in PopulateCalls : stack' = [stack EXCEPT ![t] = <<f>>]
    /\ UNCHANGED <<regVars, envVars, lock>>

\* One step of thread t: its next call, or the next step of the call it
\* is in.  A thread waiting for the import lock has no step.
PopulateStep(t) ==
    \/ PopulateCall(t)
    \/ PA_Check(t) \/ PA_Lock(t) \/ PA_Check2(t) \/ PA_Create(t) \/ PA_Done(t)
    \/ PM_Check(t) \/ PM_Lock(t) \/ PM_Check2(t) \/ PM_Begin(t)
    \/ PM_Loop(t) \/ PM_AfterImport(t) \/ PM_EndPass(t)
    \/ PM_Retry(t) \/ PM_AfterRetry(t) \/ PM_Done(t)
    \/ IM_Start(t) \/ IM_Register(t) \/ IM_Nested(t) \/ IM_Finish(t) \/ IM_Fail(t)
    \/ GM_Start(t) \/ GM_Compute(t) \/ GM_Store(t)

NextPopulate == \E t \in Threads : PopulateStep(t)

\* Several threads call populate_apps and populate_models concurrently.
\* The scheduler runs every thread that can take a step: a thread whose
\* next step stays possible eventually takes it.
SpecFair ==
    /\ InitFair
    /\ [][NextPopulate]_vars
    /\ \A t \in Threads : WF_vars(PopulateStep(t))

\* Thread t has a call of fn in progress.
InCall(t, fn) == \E i \in 1 .. Len(stack[t]) : stack[t][i].fn = fn

\* No import has failed: no thread has an exception.
NoFailure == \A t \in Threads : exc[t] = "none"

\* C30: every call a thread has in progress eventually returns or raises,
\* whatever the other threads do; and in a run where no import fails, a
\* call of populate_apps leads to _apps_loaded and a call of
\* populate_models leads to both _apps_loaded and _models_loaded.
C30_PopulationTerminates ==
    /\ \A t \in Threads : (stack[t] # <<>>) ~> (stack[t] = <<>>)
    /\ ([]NoFailure) =>
          /\ (\E t \in Threads : InCall(t, "populate_apps")) ~> _apps_loaded
          /\ (\E t \in Threads : InCall(t, "populate_models"))
                ~> (_apps_loaded /\ _models_loaded)

\* populate_models, holding the import lock, has called populate_apps,
\* which has taken the lock again, while another thread waits for it.
C30_Witness ==
    \E t, u \in Threads :
        /\ t # u
        /\ Running(t, "populate_apps", "check2")
        /\ InCall(t, "populate_models")
        /\ lock = [owner |-> t, count |-> 2]
        /\ stack[u] # <<>>
        /\ Top(u).pc = "lock"

\* ------------------------------------------------------ readiness flags

\* C31: no step of any operation takes _apps_loaded or _models_loaded from
\* true back to false.
C31_FlagsMonotonic ==
    [][/\ _apps_loaded => _apps_loaded'
       /\ _models_loaded => _models_loaded']_vars

\* On the master, both flags are true inside a scoped context.
C31_Witness ==
    /\ master
    /\ _apps_loaded
    /\ _models_loaded
    /\ scopes # <<>>

\* ----------------------------------------------------------------- lookups

\* The labels and names the lookups are made with: the label of an
\* installed application, a label with registered models and no
\* application, and a label nothing is registered under.
LookupLabels == {Label(INSTALLED_APPS[1]), NotInstalledLabel, Label(ExtraApp)}

LookupCalls ==
    {[Frame("get_model", "start") EXCEPT !.label = l, !.name = n, !.flag = f] :
        l \in LookupLabels, n \in QueryNames, f \in BOOLEAN}
    \cup {[Frame("has_model", "start") EXCEPT !.label = l, !.name = n] :
             l \in LookupLabels, n \in QueryNames}
    \cup {[Frame("get_models", "start") EXCEPT !.key = k] : k \in Keys}
    \cup {[Frame("import_late", "lock") EXCEPT !.app = m.label, !.model = m] :
             m \in LateModels}

LookupCall(t) ==
    /\ Enter(t)
    /\ \E f \in LookupCalls : stack' = [stack EXCEPT ![t] = <<f>>]
    /\ UNCHANGED <<regVars, envVars, lock>>

NextLookup ==
    \E t \in Threads :
        \/ LookupCall(t)
        \/ GT_Start(t) \/ GT_Lookup(t) \/ HM_Call(t)
        \/ GM_Start(t) \/ GM_Compute(t) \/ GM_Store(t)
        \/ LI_Lock(t) \/ LI_Register(t)
        \/ PA_Check(t) \/ PA_Lock(t) \/ PA_Check2(t) \/ PA_Create(t) \/ PA_Done(t)
        \/ PM_Check(t) \/ PM_Lock(t) \/ PM_Check2(t) \/ PM_Begin(t)
        \/ PM_Loop(t) \/ PM_AfterImport(t) \/ PM_EndPass(t)
        \/ PM_Retry(t) \/ PM_AfterRetry(t) \/ PM_Done(t)
        \/ IM_Start(t) \/ IM_Register(t) \/ IM_Finish(t) \/ IM_Fail(t)

\* One thread looks models up and registers models, on a master and on a
\* non-master registry.
SpecLookup == InitLookup /\ [][NextLookup]_vars

\* The models registered under label l whose name is the lowercased n.
Matching(l, n) ==
    {m \in RegisteredModels : m.label = l /\ Lower(m.name) = Lower(n)}

\* The lookup of thread t is restricted to installed applications, and
\* its label has no AppConfig.
UnknownLabel(t) == master /\ Top(t).flag /\ ~HasLabel(Top(t).label)

\* C32: with no restriction active, the lookup step of get_model raises
\* nothing; it returns the model registered under the label whose name is
\* the lowercased name asked for, and None when the label is unknown or no
\* such model is registered.
C32_CaseInsensitiveLookup ==
    [][\A t \in Threads :
          (/\ Running(t, "get_model", "after_pm")
           /\ exc[t] = "none"
           /\ available_apps = <<>>
           /\ stack'[t] # stack[t])
          => /\ exc'[t] = "none"
             /\ ReturnedModels(t) =
                   IF UnknownLabel(t) THEN {}
                   ELSE Matching(Top(t).label, Top(t).name)]_vars

\* get_model is about to return a model whose registered name differs
\* from the name it was asked for.
C32_Witness ==
    \E t \in Threads :
        /\ Running(t, "get_model", "after_pm")
        /\ exc[t] = "none"
        /\ available_apps = <<>>
        /\ \E m \in ReturnedModels(t) : m.name # Top(t).name

\* A frame of the population that has gone past its first test of the
\* flag, or a frame of import_models.
Populating(f) ==
    \/ f.fn \in {"populate_apps", "populate_models"} /\ f.pc # "check"
    \/ f.fn = "import_models"

\* C33: on a registry that is not the master both flags are true in every
\* state, no populate call goes past its first test, no AppConfig is
\* created and no models unit imported; get_model returns the model
\* registered under the label and lowercased name, and get_models every
\* registered model its flags admit, whatever only_installed is and
\* whether the label is installed or not.
C33_NonMasterIgnoresInstalled ==
    [][~master =>
          /\ _apps_loaded /\ _models_loaded
          /\ app_configs' = app_configs
          /\ sys_modules' = sys_modules
          /\ models_module' = models_module
          /\ \A t \in Threads :
                /\ \A i \in 1 .. Len(stack'[t]) : ~Populating(stack'[t][i])
                /\ (Running(t, "get_model", "after_pm") /\ exc[t] = "none")
                   => ReturnedModels(t) = Matching(Top(t).label, Top(t).name)
                /\ (/\ exc[t] = "none"
                    /\ \/ Running(t, "get_models", "start")
                          /\ Hit(CacheKey(Top(t).key))
                       \/ Running(t, "get_models", "store"))
                   => ReturnedModels(t) =
                         {m \in RegisteredModels : Keep(Top(t).key, m)}]_vars

\* On a registry that is not the master, get_model called with
\* only_installed=True is about to return a model of a label that has no
\* AppConfig.
C33_Witness ==
    \E t \in Threads :
        /\ ~master
        /\ Running(t, "get_model", "after_pm")
        /\ Top(t).flag
        /\ exc[t] = "none"
        /\ ~HasLabel(Top(t).label)
        /\ ReturnedModels(t) # {}

\* ------------------------------------------- after a failed population

\* C34: whenever no invocation of populate_models is in progress, the
\* list of postponed AppConfigs does not exist.
C34_PostponedCleared ==
    (\A t \in Threads : ~InCall(t, "populate_models"))
       => _postponed = "absent"

\* C35: a top-level populate_apps call on a master registry whose
\* _apps_loaded is false, made while no other populate_apps invocation is
\* in progress, does not raise RuntimeError.
C35_RuntimeErrorOnlyOnReentry ==
    [][\A t \in Threads :
          (/\ master
           /\ ~_apps_loaded
           /\ Len(stack[t]) = 1
           /\ Top(t).fn = "populate_apps"
           /\ \A u \in Threads \ {t} : ~InCall(u, "populate_apps"))
          => exc'[t] # "RuntimeError"]_vars

\* C36: whenever no population is in progress, every entry of the cache is
\* the list get_models would build for its key from the registry as it is.
C36_CacheCoherent ==
    (\A t \in Threads : /\ ~InCall(t, "populate_apps")
                        /\ ~InCall(t, "populate_models"))
       => \A k \in AllKeys :
             _get_models_cache[k] # NoEntry
                => _get_models_cache[k] = ModelList(k)

\* C37: the step of has_model, and the lookup step of a get_model call that
\* finds no model, leave all_models, app_configs, available_apps and the
\* cache of get_models as they are.
C37_LookupsPure ==
    [][\A t \in Threads :
          (/\ stack'[t] # stack[t]
           /\ \/ Running(t, "has_model", "start")
              \/ /\ Running(t, "get_model", "after_pm")
                 /\ exc[t] = "none"
                 /\ ReturnedModels(t) = {})
          => /\ all_models' = all_models
             /\ app_configs' = app_configs
             /\ available_apps' = available_apps
             /\ _get_models_cache' = _get_models_cache]_vars

\* C38: on the master, whenever _models_loaded is true, the models unit of
\* every configured application that has an AppConfig is fully imported.
C38_ReadyImpliesComplete ==
    (master /\ _models_loaded)
       => \A i \in 1 .. Len(app_configs) :
             (app_configs[i] \in Range(INSTALLED_APPS)
              /\ HasModelsUnit(app_configs[i]))
             => /\ sys_modules[app_configs[i]] = "loaded"
                /\ models_module[app_configs[i]]

\* ------------------------------------------------------------ get_commands

\* dict.setdefault for every name: names that are present keep their value.
UpdateCommandsKeeping(commands, names, app) ==
    [n \in DOMAIN commands \cup names |->
        IF n \in DOMAIN commands THEN commands[n] ELSE app]

\* commands.update({name: app for name in names})
UpdateCommands(commands, names, app) ==
    [n \in DOMAIN commands \cup names |->
        IF n \in names THEN app ELSE commands[n]]

\* settings.configured turns true between two calls.
Configure(t) ==
    /\ Enter(t)
    /\ ~configured
    /\ configured' = TRUE
    /\ UNCHANGED <<regVars, sys_modules, retries, scopes, management_dirs,
                   get_commands_cache, lock, stack>>

\* get_commands(): lru_cache returns what it keeps; otherwise the core
\* commands are collected and, when settings are not configured,
\* returned; when they are, apps.get_app_configs() is called.
GCmd_Start(t) ==
    /\ Running(t, "get_commands", "start")
    /\ LET core == UpdateCommands(<<>>, FindCommands(management_dirs[CoreApp]),
                                  CoreApp)
       IN  IF get_commands_cache.cached
           THEN /\ Return(t)
                /\ UNCHANGED get_commands_cache
           ELSE IF ~configured
           THEN /\ get_commands_cache' = Cached(core)
                /\ Return(t)
           ELSE /\ CallFrom(t, [Top(t) EXCEPT !.pc = "listed", !.commands = core],
                            Frame("get_app_configs", "start"))
                /\ UNCHANGED get_commands_cache
    /\ UNCHANGED <<regVars, sys_modules, retries, scopes, configured,
                   management_dirs, lock, exc, calls>>

\* reversed(list(apps.get_app_configs())): the loop starts at the last
\* AppConfig; an exception of the population leaves get_commands.
GCmd_Listed(t) ==
    /\ Running(t, "get_commands", "listed")
    /\ IF exc[t] # "none"
       THEN Return(t)
       ELSE stack' = [stack EXCEPT ![t] =
                         WithTop(t, [Top(t) EXCEPT
                                        !.pc = "loop",
                                        !.configs = GetAppConfigs(FALSE),
                                        !.i = Len(GetAppConfigs(FALSE))])]
    /\ UNCHANGED <<regVars, envVars, lock, exc, calls>>

\* One iteration: the commands of the application's management directory
\* are entered under the application's name.
GCmd_Update(t) ==
    /\ Running(t, "get_commands", "loop")
    /\ Top(t).i >= 1
    /\ stack' = [stack EXCEPT ![t] =
          WithTop(t, [Top(t) EXCEPT
             !.commands =
                 UpdateCommands(@,
                     FindCommands(management_dirs[Top(t).configs[Top(t).i]]),
                     Top(t).configs[Top(t).i]),
             !.i = @ - 1])]
    /\ UNCHANGED <<regVars, envVars, lock, exc, calls>>

\* The loop is over: the dictionary is returned, and lru_cache keeps it.
GCmd_Return(t) ==
    /\ Running(t, "get_commands", "loop")
    /\ Top(t).i = 0
    /\ get_commands_cache' = Cached(Top(t).commands)
    /\ Return(t)
    /\ UNCHANGED <<regVars, sys_modules, retries, scopes, configured,
                   management_dirs, lock, exc, calls>>

CommandCalls ==
    {Frame("get_commands", "start"), Frame("populate_apps", "check")}

CommandCall(t) ==
    /\ Enter(t)
    /\ \E f \in CommandCalls : stack' = [stack EXCEPT ![t] = <<f>>]
    /\ UNCHANGED <<regVars, envVars, lock>>

NextCommands ==
    \E t \in Threads :
        \/ CommandCall(t) \/ Configure(t)
        \/ GCmd_Start(t) \/ GCmd_Listed(t) \/ GCmd_Update(t) \/ GCmd_Return(t)
        \/ GS_Start(t) \/ GS_Yield(t)
        \/ PA_Check(t) \/ PA_Lock(t) \/ PA_Check2(t) \/ PA_Create(t) \/ PA_Done(t)

\* One thread calls get_commands and populate_apps, and configures the
\* settings.
SpecCommands == InitCommands /\ [][NextCommands]_vars

\* The positions in configs of the applications whose management directory
\* provides the command n.
Providers(n, configs) ==
    {i \in 1 .. Len(configs) : n \in FindCommands(management_dirs[configs[i]])}

\* The dictionary the precedence rules give: with settings configured, a
\* command of several applications belongs to the first of them in
\* configs, a command of an application is not a core command, and the
\* remaining core commands belong to django.core; with settings not
\* configured, the core commands alone.
Precedence(cfg, configs) ==
    LET core == FindCommands(management_dirs[CoreApp])
        apps == IF cfg
                THEN UNION {FindCommands(management_dirs[configs[i]]) :
                               i \in 1 .. Len(configs)}
                ELSE {}
    IN  [n \in core \cup apps |->
            IF n \in apps
            THEN configs[CHOOSE i \in Providers(n, configs) :
                            \A j \in Providers(n, configs) : i <= j]
            ELSE CoreApp]

\* The step of thread t returns from get_commands without an exception.
GetCommandsReturns(t) ==
    /\ stack[t] # <<>>
    /\ Top(t).fn = "get_commands"
    /\ \/ Top(t).pc = "start" /\ (get_commands_cache.cached \/ ~configured)
       \/ Top(t).pc = "loop" /\ Top(t).i = 0
    /\ stack'[t] # stack[t]

\* The dictionary that step returns.
ReturnedCommands(t) ==
    IF Top(t).pc = "loop" THEN Top(t).commands
    ELSE IF get_commands_cache.cached THEN get_commands_cache.value
    ELSE UpdateCommands(<<>>, FindCommands(management_dirs[CoreApp]), CoreApp)

\* C39 as stated: every call of get_commands returns the dictionary the
\* precedence rules give for the settings and the AppConfigs as they are
\* at the call.
C39_PrecedenceAtEveryCall ==
    [][\A t \in Threads :
          (GetCommandsReturns(t) /\ (_apps_loaded \/ ~configured))
          => ReturnedCommands(t) = Precedence(configured, GetAppConfigs(FALSE))]_vars

\* C39 (amended): a call of get_commands made while lru_cache keeps
\* nothing returns the dictionary the precedence rules give, and lru_cache
\* keeps it; every later call returns the dictionary kept, which never
\* changes.
C39_PrecedenceCached ==
    [][/\ get_commands_cache.cached => get_commands_cache' = get_commands_cache
       /\ \A t \in Threads :
             GetCommandsReturns(t)
             => IF get_commands_cache.cached
                THEN ReturnedCommands(t) = get_commands_cache.value
                ELSE /\ ReturnedCommands(t)
                          = Precedence(configured, GetAppConfigs(FALSE))
                     /\ get_commands_cache' = Cached(ReturnedCommands(t))]_vars

\* get_commands is about to return a dictionary in which a command of both
\* applications belongs to the first one and a core command has been
\* taken over by an application.
C39_Witness ==
    \E t \in Threads :
        /\ Running(t, "get_commands", "loop")
        /\ Top(t).i = 0
        /\ Len(Top(t).configs) = 2
        /\ \E n \in DOMAIN Top(t).commands :
              /\ Providers(n, Top(t).configs) = {1, 2}
              /\ n \in FindCommands(management_dirs[CoreApp])
              /\ Top(t).commands[n] = Top(t).configs[1]

====
